---- MODULE Spec2Model ----
(***************************************************************************)
(* OAuth demo broker: GitHub and QQ authorization-code logins, the         *)
(* session-bound state parameter, the in-memory user stores, the internal  *)
(* JWTs and the verification dependencies.                                  *)
(*                                                                         *)
(* Python values are encoded as follows.  None is the empty tuple <<>>,    *)
(* and a present value x of an optional is <<x>>.  A dict is a function    *)
(* whose DOMAIN is the set of its keys.  A JWT is the record of what       *)
(* jwt.encode signs: the key, the algorithm and the payload claims.        *)
(***************************************************************************)
EXTENDS Integers, Sequences, FiniteSets, TLC

VARIABLES
    session,        \* request.session of every browser session: sid -> dict
    issued,         \* how many state values secrets.token_urlsafe has produced
    fake_users_db,  \* model.mocker.mock_model.fake_users_db: github_id -> user
    qq_user_db,     \* service.qq_oauth_service.qq_user_db: openid -> QQUser
    now,            \* the clock read by datetime.now / jwt.decode, in ticks
    QQ_JWT_SECRET_KEY,  \* config.providers, read from the environment
    SERVICE_CLIENT_ID,  \* config.providers, read from the environment
    inflight,       \* the callback of a session suspended at an await, or None
    resp            \* the response to the last request served

vars == <<session, issued, fake_users_db, qq_user_db, now,
          QQ_JWT_SECRET_KEY, SERVICE_CLIENT_ID, inflight, resp>>

(***************************************************************************)
(* Bounds of the model.                                                    *)
(***************************************************************************)
\* the resolution of datetime: ticks in one second (a NumericDate of a
\* token counts whole seconds)
TicksPerSecond == 2

\* how many state values the login endpoints issue in a run
MaxStates == 2

\* the browser sessions
Sessions == {"s1", "s2"}
\* the values the state query parameter of a callback is drawn from: every
\* value login can issue, and one more that login never issues
StateValues == {<<i>> : i \in 1..(MaxStates + 1)}


(***************************************************************************)
(* Python helpers.                                                         *)
(***************************************************************************)
None == <<>>
Some(x) == <<x>>
\* dict.get(key): the value, or None
Get(d, k) == IF k \in DOMAIN d THEN Some(d[k]) ELSE None
\* d[key] = value
Put(d, k, v) == [x \in DOMAIN d \cup {k} |-> IF x = k THEN v ELSE d[x]]
\* dict.pop(key, None)
Pop(d, k) == [x \in DOMAIN d \ {k} |-> d[x]]
EmptyDict == [x \in {} |-> None]
\* Python truthiness of an optional string
Truthy(v) == v # None /\ v[1] # ""
\* a or b
Or(a, b) == IF Truthy(a) THEN a ELSE b

(***************************************************************************)
(* config/providers.py and config/mock_config.py                           *)
(***************************************************************************)
SECRET_KEY == "K1"
ALGORITHM == "HS256"
QQ_JWT_ALGORITHM == "HS256"
ACCESS_TOKEN_EXPIRE_MINUTES == 15
REFRESH_TOKEN_EXPIRE_MINUTES == 60 * 24 * 7
SERVICE_ACCESS_TOKEN_EXPIRE_MINUTES == 15
QQ_ACCESS_TOKEN_EXPIRE_MINUTES == 30
QQ_REFRESH_TOKEN_EXPIRE_DAYS == 7
DefaultQQKey == "K2"
DefaultServiceClientId == "my-trusted-service"
SERVICE_CLIENT_SECRET == "super-secret-service-key"
\* what the environment can set: QQ_JWT_SECRET_KEY falls back to SECRET_KEY
\* when only that one is set, and a client id is any string
QQKeys == {DefaultQQKey, SECRET_KEY}
ServiceClientIds == {DefaultServiceClientId, "1", "o1"}

(***************************************************************************)
(* Responses.  steps lists, in order, the steps of the handler that ran to *)
(* completion before the response was produced, and calls the answers the  *)
(* provider gave to the outbound requests the handler made.                *)
(***************************************************************************)
Response(op, sid, state, status, detail, steps, calls, access, refresh) ==
    [op |-> op, sid |-> sid, state |-> state, status |-> status,
     detail |-> detail, steps |-> steps, calls |-> calls,
     access_token |-> access, refresh_token |-> refresh,
     presented |-> None, principal |-> None]

NoResponse == Response("none", "", None, 0, "", <<>>, <<>>, None, None)

\* the response of an endpoint that takes a token (or service credentials)
\* and no session: presented is what the caller sent, principal what a
\* dependency resolved it to
TokenResponse(op, presented, status, detail, principal, access) ==
    [NoResponse EXCEPT !.op = op, !.presented = Some(presented), !.status = status,
                       !.detail = detail, !.principal = principal,
                       !.access_token = access]

(***************************************************************************)
(* str() and int() between a GitHub id and the sub claim.  int() accepts   *)
(* more strings than str() produces ("01" parses to 1) and raises          *)
(* ValueError, here None, on the others.                                   *)
(***************************************************************************)
Str(n) == CASE n = 0 -> "0" [] n = 1 -> "1" [] n = 2 -> "2" [] OTHER -> "3"
ParseInt(s) == CASE s = "0" -> Some(0) [] s = "1" -> Some(1) [] s = "01" -> Some(1)
            [] s = "2" -> Some(2) [] s = "3" -> Some(3) [] OTHER -> None

(***************************************************************************)
(* datetime: instants and durations count ticks.                           *)
(***************************************************************************)
timedelta_minutes(minutes) == minutes * 60 * TicksPerSecond
timedelta_days(days) == days * 24 * 60 * 60 * TicksPerSecond

\* calendar.timegm(d.utctimetuple()): the whole seconds of an instant
timegm(d) == d \div TicksPerSecond

(***************************************************************************)
(* python-jose.  jwt.encode turns a datetime exp into whole seconds and    *)
(* signs; jwt.decode checks the form, the algorithm, the signature and     *)
(* then the exp claim against the clock in whole seconds: a token is       *)
(* expired when exp < timegm(now).                                         *)
(***************************************************************************)
JwtEncode(to_encode, key, algorithm) ==
    [form |-> "jwt", key |-> key, alg |-> algorithm, sub |-> to_encode.sub,
     scopes |-> to_encode.scopes,
     exp |-> IF to_encode.exp = None THEN None ELSE Some(timegm(to_encode.exp[1]))]

Garbage == [form |-> "garbage", key |-> "", alg |-> "", sub |-> None,
            scopes |-> None, exp |-> None]

\* a decoder that never looks at exp
JwtDecode_NoExpiry(token, key, algorithm, clock) ==
    IF token.form # "jwt" THEN [ok |-> FALSE, error |-> "Malformed"]
    ELSE IF token.alg # algorithm \/ token.key # key
    THEN [ok |-> FALSE, error |-> "SignatureInvalid"]
    ELSE [ok |-> TRUE, error |-> "",
          payload |-> [sub |-> token.sub, scopes |-> token.scopes, exp |-> token.exp]]

JwtDecode(token, key, algorithm, clock) ==
    IF token.form # "jwt" THEN [ok |-> FALSE, error |-> "Malformed"]
    ELSE IF token.alg # algorithm \/ token.key # key
    THEN [ok |-> FALSE, error |-> "SignatureInvalid"]
    ELSE IF token.exp # None /\ token.exp[1] < timegm(clock)
    THEN [ok |-> FALSE, error |-> "Expired"]
    ELSE [ok |-> TRUE, error |-> "",
          payload |-> [sub |-> token.sub, scopes |-> token.scopes, exp |-> token.exp]]

\* data as the callers build it: {"sub": ...} with or without "scopes"
Data(sub, scopes) == [sub |-> Some(sub), scopes |-> scopes]

\* to_encode = data.copy(); to_encode.update({"exp": expire})
WithExp(data, expire) == [sub |-> data.sub, scopes |-> data.scopes, exp |-> Some(expire)]

\* "if expires_delta:" is false for None and for a zero timedelta
Expire(expires_delta, default, clock) ==
    IF expires_delta # None /\ expires_delta[1] # 0
    THEN clock + expires_delta[1] ELSE clock + default

(***************************************************************************)
(* service/mock_token_service.py                                           *)
(***************************************************************************)
\* a creator that encodes data as it came, without the exp it computed
create_access_token_EncodesData(data, expires_delta, clock) ==
    JwtEncode([sub |-> data.sub, scopes |-> data.scopes, exp |-> None],
              SECRET_KEY, ALGORITHM)

create_access_token(data, expires_delta, clock) ==
    JwtEncode(WithExp(data, Expire(expires_delta, timedelta_minutes(ACCESS_TOKEN_EXPIRE_MINUTES), clock)),
              SECRET_KEY, ALGORITHM)

create_refresh_token(data, expires_delta, clock) ==
    JwtEncode(WithExp(data, Expire(expires_delta, timedelta_minutes(REFRESH_TOKEN_EXPIRE_MINUTES), clock)),
              SECRET_KEY, ALGORITHM)

\* a creator that encodes the subject and forgets the rest of data
create_service_access_token_SubOnly(data, expires_delta, clock) ==
    JwtEncode(WithExp([sub |-> data.sub, scopes |-> None],
                      Expire(expires_delta,
                             timedelta_minutes(SERVICE_ACCESS_TOKEN_EXPIRE_MINUTES), clock)),
              SECRET_KEY, ALGORITHM)

create_service_access_token(data, expires_delta, clock) ==
    JwtEncode(WithExp(data, Expire(expires_delta, timedelta_minutes(SERVICE_ACCESS_TOKEN_EXPIRE_MINUTES), clock)),
              SECRET_KEY, ALGORITHM)

(***************************************************************************)
(* service/mock_user_service.py                                            *)
(***************************************************************************)
\* the first user of db.values() with that github_id, or None
get_user_by_github_id(db, github_id) ==
    LET hits == {k \in DOMAIN db : db[k].github_id = github_id}
    IN IF hits = {} THEN None ELSE Some(db[CHOOSE k \in hits : TRUE])

\* the upsert without its write "db[github_id] = user_info"
add_or_update_user_NoStore(db, user_data) ==
    LET github_id == Get(user_data, "id")
    IN IF github_id = None \/ github_id[1] = 0
       THEN [raised |-> "ValueError", db |-> db, user |-> None]
       ELSE IF Get(user_data, "login") = None
       THEN [raised |-> "ValidationError", db |-> db, user |-> None]
       ELSE [raised |-> "", db |-> db,
             user |-> Some([username |-> Get(user_data, "login"),
                            github_id |-> github_id[1],
                            name |-> Get(user_data, "name"),
                            email |-> Get(user_data, "email"),
                            avatar_url |-> Get(user_data, "avatar_url"),
                            disabled |-> FALSE])]

\* the upsert negating the stored flag instead of copying it
add_or_update_user_FlipsDisabled(db, user_data) ==
    LET github_id == Get(user_data, "id")
    IN IF github_id = None \/ github_id[1] = 0
       THEN [raised |-> "ValueError", db |-> db, user |-> None]
       ELSE LET existing_user == get_user_by_github_id(db, github_id[1])
                user_info == [username |-> Get(user_data, "login"),
                              github_id |-> github_id[1],
                              name |-> Get(user_data, "name"),
                              email |-> Get(user_data, "email"),
                              avatar_url |-> Get(user_data, "avatar_url"),
                              disabled |-> IF existing_user # None
                                           THEN ~existing_user[1].disabled ELSE FALSE]
            IN IF user_info.username = None
               THEN [raised |-> "ValidationError", db |-> db, user |-> None]
               ELSE [raised |-> "", db |-> Put(db, github_id[1], user_info),
                     user |-> Some(user_info)]

\* the upsert building every user with the default of disabled
add_or_update_user_ResetsDisabled(db, user_data) ==
    LET github_id == Get(user_data, "id")
    IN IF github_id = None \/ github_id[1] = 0
       THEN [raised |-> "ValueError", db |-> db, user |-> None]
       ELSE LET existing_user == get_user_by_github_id(db, github_id[1])
                user_info == [username |-> Get(user_data, "login"),
                              github_id |-> github_id[1],
                              name |-> Get(user_data, "name"),
                              email |-> Get(user_data, "email"),
                              avatar_url |-> Get(user_data, "avatar_url"),
                              disabled |-> FALSE]
            IN IF user_info.username = None
               THEN [raised |-> "ValidationError", db |-> db, user |-> None]
               ELSE [raised |-> "", db |-> Put(db, github_id[1], user_info),
                     user |-> Some(user_info)]

\* the upsert returning the stored user as it is when there is one
add_or_update_user_KeepsExisting(db, user_data) ==
    LET github_id == Get(user_data, "id")
    IN IF github_id = None \/ github_id[1] = 0
       THEN [raised |-> "ValueError", db |-> db, user |-> None]
       ELSE LET existing_user == get_user_by_github_id(db, github_id[1])
                user_info == [username |-> Get(user_data, "login"),
                              github_id |-> github_id[1],
                              name |-> Get(user_data, "name"),
                              email |-> Get(user_data, "email"),
                              avatar_url |-> Get(user_data, "avatar_url"),
                              disabled |-> FALSE]
            IN IF user_info.username = None
               THEN [raised |-> "ValidationError", db |-> db, user |-> None]
               ELSE IF existing_user # None
               THEN [raised |-> "", db |-> db, user |-> existing_user]
               ELSE [raised |-> "", db |-> Put(db, github_id[1], user_info),
                     user |-> Some(user_info)]

\* the upsert storing every user it builds under the next free position
add_or_update_user_Appends(db, user_data) ==
    LET github_id == Get(user_data, "id")
    IN IF github_id = None \/ github_id[1] = 0
       THEN [raised |-> "ValueError", db |-> db, user |-> None]
       ELSE LET existing_user == get_user_by_github_id(db, github_id[1])
                user_info == [username |-> Get(user_data, "login"),
                              github_id |-> github_id[1],
                              name |-> Get(user_data, "name"),
                              email |-> Get(user_data, "email"),
                              avatar_url |-> Get(user_data, "avatar_url"),
                              disabled |-> IF existing_user # None
                                           THEN existing_user[1].disabled ELSE FALSE]
            IN IF user_info.username = None
               THEN [raised |-> "ValidationError", db |-> db, user |-> None]
               ELSE [raised |-> "",
                     db |-> Put(db, Cardinality(DOMAIN db) + 1, user_info),
                     user |-> Some(user_info)]

\* raises ValueError when the id is missing or falsy, and pydantic's
\* ValidationError when "login" is missing (username is a required str)
add_or_update_user(db, user_data) ==
    LET github_id == Get(user_data, "id")
    IN IF github_id = None \/ github_id[1] = 0
       THEN [raised |-> "ValueError", db |-> db, user |-> None]
       ELSE LET existing_user == get_user_by_github_id(db, github_id[1])
                user_info == [username |-> Get(user_data, "login"),
                              github_id |-> github_id[1],
                              name |-> Get(user_data, "name"),
                              email |-> Get(user_data, "email"),
                              avatar_url |-> Get(user_data, "avatar_url"),
                              disabled |-> IF existing_user # None
                                           THEN existing_user[1].disabled ELSE FALSE]
            IN IF user_info.username = None
               THEN [raised |-> "ValidationError", db |-> db, user |-> None]
               ELSE [raised |-> "", db |-> Put(db, github_id[1], user_info),
                     user |-> Some(user_info)]

(***************************************************************************)
(* What the providers can answer.                                          *)
(***************************************************************************)
\* GitHub's token endpoint: the request raised, or the JSON body
GithubTokenResponses ==
    {[raised |-> TRUE, json |-> EmptyDict],
     [raised |-> FALSE, json |-> [error |-> "bad_verification_code"]],
     [raised |-> FALSE, json |-> [access_token |-> ""]],
     [raised |-> FALSE, json |-> [access_token |-> "gho_1"]]}

\* GitHub's user endpoint: the request raised, or the JSON body
GithubUserResponses ==
    {[raised |-> TRUE, json |-> EmptyDict],
     [raised |-> FALSE, json |-> EmptyDict],
     [raised |-> FALSE, json |-> [login |-> "alice"]],
     [raised |-> FALSE, json |-> [id |-> 0, login |-> "ghost"]],
     [raised |-> FALSE, json |-> [id |-> 2]],
     [raised |-> FALSE, json |-> [id |-> 1, login |-> "alice"]],
     [raised |-> FALSE, json |-> [id |-> 1, login |-> "alice", name |-> "Alice"]],
     [raised |-> FALSE, json |-> [id |-> 2, login |-> "bob"]]}

(***************************************************************************)
(* core/v1/code_to_access.py                                               *)
(***************************************************************************)
\* a login that keeps the pending state in one slot shared by all sessions
login_via_github_SharedState(sid) ==
    /\ issued < MaxStates
    /\ LET state == <<issued + 1>>
       IN /\ issued' = issued + 1
          /\ session' = [s \in Sessions |-> Put(session[s], "oauth_state", state)]
          /\ resp' = Response("login_github", sid, state, 302, "", <<"state_issued">>,
                              <<>>, None, None)
    /\ UNCHANGED <<fake_users_db, qq_user_db, now, QQ_JWT_SECRET_KEY, SERVICE_CLIENT_ID, inflight>>

\* a login that keeps the state already pending in the session
login_via_github_KeepsFirst(sid) ==
    /\ issued < MaxStates
    /\ LET state == <<issued + 1>>
       IN /\ issued' = issued + 1
          /\ session' = [session EXCEPT ![sid] =
                            IF "oauth_state" \in DOMAIN @ THEN @
                            ELSE Put(@, "oauth_state", state)]
          /\ resp' = Response("login_github", sid, state, 302, "", <<"state_issued">>,
                              <<>>, None, None)
    /\ UNCHANGED <<fake_users_db, qq_user_db, now, QQ_JWT_SECRET_KEY, SERVICE_CLIENT_ID, inflight>>

\* GET /login/github
login_via_github(sid) ==
    /\ issued < MaxStates
    /\ LET state == <<issued + 1>>
       IN /\ issued' = issued + 1
          /\ session' = [session EXCEPT ![sid] = Put(@, "oauth_state", state)]
          /\ resp' = Response("login_github", sid, state, 302, "", <<"state_issued">>,
                              <<>>, None, None)
    /\ UNCHANGED <<fake_users_db, qq_user_db, now, QQ_JWT_SECRET_KEY, SERVICE_CLIENT_ID, inflight>>

\* the check without its comparison: any state passes once one is stored
StateRejected_MissingOnly(expected_state, state) == expected_state = None

\* "if not expected_state or state != expected_state"
StateRejected(expected_state, state) ==
    expected_state = None \/ state # expected_state[1]

\* a failure response that passes on the error code the provider sent
GithubFail_ProviderError(sid, state, status, detail, steps, calls) ==
    /\ resp' = Response("callback_github", sid, state, status,
                        Or(Get(calls[Len(calls)].json, "error"), Some(detail))[1],
                        <<"state_validated">> \o steps, calls, None, None)
    /\ UNCHANGED fake_users_db

\* raise HTTPException(...) after the state check passed
GithubFail(sid, state, status, detail, steps, calls) ==
    /\ resp' = Response("callback_github", sid, state, status, detail,
                        <<"state_validated">> \o steps, calls, None, None)
    /\ UNCHANGED fake_users_db

\* the last steps of the callback refusing a disabled user
GithubIssue_RefusesDisabled(sid, state, user_data, calls) ==
    LET up == add_or_update_user(fake_users_db, user_data)
    IN IF up.raised # ""
       THEN GithubFail(sid, state, 500, up.raised,
                       <<"code_exchanged", "profile_fetched">>, calls)
       ELSE IF up.user[1].disabled
       THEN GithubFail(sid, state, 400, "user_disabled",
                       <<"code_exchanged", "profile_fetched">>, calls)
       ELSE LET sub == Str(up.user[1].github_id)
                access_token ==
                    create_access_token(Data(sub, None),
                                        Some(timedelta_minutes(ACCESS_TOKEN_EXPIRE_MINUTES)), now)
                refresh_token ==
                    create_refresh_token(Data(sub, None),
                                         Some(timedelta_minutes(REFRESH_TOKEN_EXPIRE_MINUTES)), now)
            IN /\ fake_users_db' = up.db
               /\ resp' = Response("callback_github", sid, state, 200, "",
                              <<"state_validated", "code_exchanged", "profile_fetched",
                                "user_resolved", "tokens_issued">>,
                              calls, Some(access_token), Some(refresh_token))

\* the last steps of the callback with the login name as the subject
GithubIssue_UsernameSub(sid, state, user_data, calls) ==
    LET up == add_or_update_user(fake_users_db, user_data)
    IN IF up.raised # ""
       THEN GithubFail(sid, state, 500, up.raised,
                       <<"code_exchanged", "profile_fetched">>, calls)
       ELSE LET sub == up.user[1].username
                access_token ==
                    create_access_token(Data(sub, None),
                                        Some(timedelta_minutes(ACCESS_TOKEN_EXPIRE_MINUTES)), now)
                refresh_token ==
                    create_refresh_token(Data(sub, None),
                                         Some(timedelta_minutes(REFRESH_TOKEN_EXPIRE_MINUTES)), now)
            IN /\ fake_users_db' = up.db
               /\ resp' = Response("callback_github", sid, state, 200, "",
                              <<"state_validated", "code_exchanged", "profile_fetched",
                                "user_resolved", "tokens_issued">>,
                              calls, Some(access_token), Some(refresh_token))

\* step 3 to step 5 of the callback: upsert, mint, return
GithubIssue(sid, state, user_data, calls) ==
    LET up == add_or_update_user(fake_users_db, user_data)
    IN IF up.raised # ""
       THEN GithubFail(sid, state, 500, up.raised,
                       <<"code_exchanged", "profile_fetched">>, calls)
       ELSE LET sub == Str(up.user[1].github_id)
                access_token ==
                    create_access_token(Data(sub, None),
                                        Some(timedelta_minutes(ACCESS_TOKEN_EXPIRE_MINUTES)), now)
                refresh_token ==
                    create_refresh_token(Data(sub, None),
                                         Some(timedelta_minutes(REFRESH_TOKEN_EXPIRE_MINUTES)), now)
            IN /\ fake_users_db' = up.db
               /\ resp' = Response("callback_github", sid, state, 200, "",
                              <<"state_validated", "code_exchanged", "profile_fetched",
                                "user_resolved", "tokens_issued">>,
                              calls, Some(access_token), Some(refresh_token))

\* GET /auth/github/callback?code=&state=  Each outbound request is answered
\* by the provider when the handler makes it.
code_to_access(sid, state) ==
    LET expected_state == Get(session[sid], "oauth_state")
    IN /\ IF StateRejected(expected_state, state)
          THEN /\ resp' = Response("callback_github", sid, state, 403, "invalid_state",
                                   <<>>, <<>>, None, None)
               /\ UNCHANGED <<session, fake_users_db>>
          ELSE /\ session' = [session EXCEPT ![sid] = Pop(@, "oauth_state")]
               /\ \E token_response \in GithubTokenResponses :
                    LET github_token == Get(token_response.json, "access_token")
                        c1 == <<token_response>>
                    IN IF token_response.raised
                       THEN GithubFail(sid, state, 500, "github_token_failed", <<>>, c1)
                       ELSE IF ~Truthy(github_token)
                       THEN GithubFail(sid, state, 500, "github_response_invalid", <<>>, c1)
                       ELSE \E user_response \in GithubUserResponses :
                              LET user_data == user_response.json
                                  c2 == <<token_response, user_response>>
                              IN IF user_response.raised
                                 THEN GithubFail(sid, state, 500, "github_user_failed",
                                                 <<"code_exchanged">>, c2)
                                 ELSE IF user_data = EmptyDict \/ "id" \notin DOMAIN user_data
                                 THEN GithubFail(sid, state, 500, "github_user_unparsable",
                                                 <<"code_exchanged">>, c2)
                                 ELSE GithubIssue(sid, state, user_data, c2)
       /\ UNCHANGED <<issued, qq_user_db, now, QQ_JWT_SECRET_KEY, SERVICE_CLIENT_ID, inflight>>

(***************************************************************************)
(* What QQ can answer.                                                     *)
(***************************************************************************)
\* the token endpoint: the request raised, or a content type with a body; a
\* text body is the list of its "&"-separated parts, each split on "="
QQTokenResponses ==
    {[raised |-> TRUE, content_type |-> "", json |-> EmptyDict, text |-> <<>>],
     [raised |-> FALSE, content_type |-> "application/json",
      json |-> [error |-> "100019"], text |-> <<>>],
     [raised |-> FALSE, content_type |-> "application/json",
      json |-> [access_token |-> "qa_1", expires_in |-> "7776000"], text |-> <<>>],
     [raised |-> FALSE, content_type |-> "text/html", json |-> EmptyDict,
      text |-> << <<"access_token", "qa_1">>, <<"expires_in", "7776000">> >>],
     [raised |-> FALSE, content_type |-> "text/plain", json |-> EmptyDict,
      text |-> << <<"code", "100019">>, <<"msg">> >>],
     [raised |-> FALSE, content_type |-> "application/xml", json |-> EmptyDict,
      text |-> <<>>]}

\* the openid endpoint: the request raised, or a body that is JSON inside the
\* callback( ... ); envelope, bare JSON, or neither (json is then None)
QQOpenidResponses ==
    {[raised |-> TRUE, envelope |-> FALSE, json |-> None],
     [raised |-> FALSE, envelope |-> FALSE, json |-> None],
     [raised |-> FALSE, envelope |-> TRUE, json |-> Some([error |-> "100016"])],
     [raised |-> FALSE, envelope |-> TRUE, json |-> Some([client_id |-> "app", openid |-> "o1"])],
     [raised |-> FALSE, envelope |-> FALSE, json |-> Some([client_id |-> "app", openid |-> "o2"])]}

\* the get_user_info endpoint: the request raised, or the JSON body
QQUserInfoResponses ==
    {[raised |-> TRUE, json |-> EmptyDict],
     [raised |-> FALSE, json |-> [ret |-> 1002, msg |-> "login first"]],
     [raised |-> FALSE, json |-> [ret |-> 0, msg |-> "", nickname |-> "nick",
                                  figureurl_qq_1 |-> "f40"]],
     [raised |-> FALSE, json |-> [ret |-> 0, msg |-> "", nickname |-> "nick2",
                                  figureurl_qq_1 |-> "f40", figureurl_qq_2 |-> "f100"]]}

(***************************************************************************)
(* service/qq_oauth_service.py                                             *)
(***************************************************************************)
\* dict(param.split("=") for param in content.split("&") if "=" in param):
\* parts without "=" are skipped; a part that does not split in two raises
TextPairs(text) == {i \in 1..Len(text) : Len(text[i]) >= 2}
TextRaises(text) == \E i \in TextPairs(text) : Len(text[i]) # 2
TextDict(text) ==
    [k \in {text[i][1] : i \in TextPairs(text)} |->
        text[CHOOSE i \in TextPairs(text) :
                /\ text[i][1] = k
                /\ \A j \in TextPairs(text) : text[j][1] = k => j <= i][2]]

\* int(expires_in) raises ValueError on a value that is no number
IntRaises(v) == v \notin {"0", "1", "2", "3", "01", "7776000"}

\* the adapter reading JSON answers only
exchange_code_for_qq_token_JsonOnly(response) ==
    IF response.raised THEN None
    ELSE IF response.content_type = "application/json"
    THEN IF "error" \in DOMAIN response.json THEN None
         ELSE LET expires_in == Get(response.json, "expires_in")
              IN IF Truthy(expires_in) /\ IntRaises(expires_in[1])
                 THEN None ELSE Get(response.json, "access_token")
    ELSE None

\* the access token, or None
exchange_code_for_qq_token(response) ==
    IF response.raised THEN None
    ELSE LET FromData(data) ==
                 LET expires_in == Get(data, "expires_in")
                 IN IF Truthy(expires_in) /\ IntRaises(expires_in[1])
                    THEN None ELSE Get(data, "access_token")
         IN IF response.content_type = "application/json"
            THEN IF "error" \in DOMAIN response.json THEN None
                 ELSE FromData(response.json)
            ELSE IF response.content_type \in {"text/plain", "text/html"}
            THEN IF TextRaises(response.text) THEN None
                 ELSE IF "access_token" \notin DOMAIN TextDict(response.text) THEN None
                 ELSE FromData(TextDict(response.text))
            ELSE None

\* the openid, or None
get_qq_openid(response) ==
    IF response.raised \/ response.json = None THEN None
    ELSE LET openid == Get(response.json[1], "openid")
         IN IF Truthy(openid) THEN openid ELSE None

\* the QQUserInfo, or None; ret and msg are required fields
get_qq_user_info(response) ==
    IF response.raised THEN None
    ELSE LET data == response.json
         IN IF "ret" \notin DOMAIN data \/ "msg" \notin DOMAIN data THEN None
            ELSE IF data.ret # 0 THEN None
            ELSE Some([ret |-> data.ret, msg |-> data.msg,
                       nickname |-> Get(data, "nickname"),
                       figureurl_qq_1 |-> Get(data, "figureurl_qq_1"),
                       figureurl_qq_2 |-> Get(data, "figureurl_qq_2")])

create_internal_qq_access_token(data, expires_delta, clock, key) ==
    JwtEncode(WithExp(data, Expire(expires_delta, timedelta_minutes(QQ_ACCESS_TOKEN_EXPIRE_MINUTES), clock)),
              key, QQ_JWT_ALGORITHM)

create_internal_qq_refresh_token(data, expires_delta, clock, key) ==
    JwtEncode(WithExp(data, Expire(expires_delta,
                                   timedelta_days(QQ_REFRESH_TOKEN_EXPIRE_DAYS), clock)),
              key, QQ_JWT_ALGORITHM)

\* the store after the call, and the user returned
get_or_create_qq_user(db, openid, user_info) ==
    LET user == IF openid \in DOMAIN db
                THEN [db[openid] EXCEPT
                         !.nickname = user_info.nickname,
                         !.avatar_url = Or(user_info.figureurl_qq_2,
                                           user_info.figureurl_qq_1)]
                ELSE [openid |-> openid, nickname |-> user_info.nickname,
                      avatar_url |-> Or(user_info.figureurl_qq_2,
                                        user_info.figureurl_qq_1)]
    IN [db |-> Put(db, openid, user), user |-> user]

get_qq_user_by_openid(db, openid) == Get(db, openid)

(***************************************************************************)
(* core/v1/qq_auth.py                                                      *)
(***************************************************************************)
\* the login writing the state under the GitHub flow's session key
login_via_qq_WrongKey(sid) ==
    /\ issued < MaxStates
    /\ LET state == <<issued + 1>>
       IN /\ issued' = issued + 1
          /\ session' = [session EXCEPT ![sid] = Put(@, "oauth_state", state)]
          /\ resp' = Response("login_qq", sid, state, 302, "", <<"state_issued">>,
                              <<>>, None, None)
    /\ UNCHANGED <<fake_users_db, qq_user_db, now, QQ_JWT_SECRET_KEY, SERVICE_CLIENT_ID, inflight>>

\* a login that clears the session before it stores its state
login_via_qq_ClearsSession(sid) ==
    /\ issued < MaxStates
    /\ LET state == <<issued + 1>>
       IN /\ issued' = issued + 1
          /\ session' = [session EXCEPT ![sid] = Put(EmptyDict, "qq_oauth_state", state)]
          /\ resp' = Response("login_qq", sid, state, 302, "", <<"state_issued">>,
                              <<>>, None, None)
    /\ UNCHANGED <<fake_users_db, qq_user_db, now, QQ_JWT_SECRET_KEY, SERVICE_CLIENT_ID, inflight>>

\* GET /auth/qq/login
login_via_qq(sid) ==
    /\ issued < MaxStates
    /\ LET state == <<issued + 1>>
       IN /\ issued' = issued + 1
          /\ session' = [session EXCEPT ![sid] = Put(@, "qq_oauth_state", state)]
          /\ resp' = Response("login_qq", sid, state, 302, "", <<"state_issued">>,
                              <<>>, None, None)
    /\ UNCHANGED <<fake_users_db, qq_user_db, now, QQ_JWT_SECRET_KEY, SERVICE_CLIENT_ID, inflight>>

\* raise HTTPException(...) after the state check passed
QQFail(sid, state, status, detail, steps, calls) ==
    /\ resp' = Response("callback_qq", sid, state, status, detail,
                        <<"state_validated">> \o steps, calls, None, None)
    /\ UNCHANGED qq_user_db

\* step 5 to step 7 of the callback: upsert, mint, return
QQIssue(sid, state, openid, user_info, calls) ==
    LET got == get_or_create_qq_user(qq_user_db, openid, user_info)
        internal_access_token ==
            create_internal_qq_access_token(Data(got.user.openid, None),
                Some(timedelta_minutes(QQ_ACCESS_TOKEN_EXPIRE_MINUTES)), now, QQ_JWT_SECRET_KEY)
        internal_refresh_token ==
            create_internal_qq_refresh_token(Data(got.user.openid, None),
                Some(timedelta_days(QQ_REFRESH_TOKEN_EXPIRE_DAYS)), now, QQ_JWT_SECRET_KEY)
    IN /\ qq_user_db' = got.db
       /\ resp' = Response("callback_qq", sid, state, 200, "",
                      <<"state_validated", "code_exchanged", "profile_fetched",
                        "user_resolved", "tokens_issued">>,
                      calls, Some(internal_access_token), Some(internal_refresh_token))

\* GET /auth/qq/callback?code=&state=  Each outbound request is answered by
\* the provider when the handler makes it.
auth_qq_callback(sid, state) ==
    LET expected_state == Get(session[sid], "qq_oauth_state")
    IN /\ IF StateRejected(expected_state, state)
          THEN /\ resp' = Response("callback_qq", sid, state, 403, "invalid_state",
                                   <<>>, <<>>, None, None)
               /\ UNCHANGED <<session, qq_user_db>>
          ELSE /\ session' = [session EXCEPT ![sid] = Pop(@, "qq_oauth_state")]
               /\ \E token_response \in QQTokenResponses :
                    LET access_token == exchange_code_for_qq_token(token_response)
                        c1 == <<token_response>>
                    IN IF ~Truthy(access_token)
                       THEN QQFail(sid, state, 503, "qq_token_failed", <<>>, c1)
                       ELSE \E openid_response \in QQOpenidResponses :
                              LET openid == get_qq_openid(openid_response)
                                  c2 == <<token_response, openid_response>>
                              IN IF ~Truthy(openid)
                                 THEN QQFail(sid, state, 503, "qq_openid_failed",
                                             <<"code_exchanged">>, c2)
                                 ELSE \E info_response \in QQUserInfoResponses :
                                        LET user_info == get_qq_user_info(info_response)
                                            c3 == <<token_response, openid_response,
                                                    info_response>>
                                        IN IF user_info = None
                                           THEN QQFail(sid, state, 503, "qq_user_info_failed",
                                                       <<"code_exchanged">>, c3)
                                           ELSE QQIssue(sid, state, openid[1],
                                                        user_info[1], c3)
       /\ UNCHANGED <<issued, fake_users_db, now, QQ_JWT_SECRET_KEY, SERVICE_CLIENT_ID, inflight>>

(***************************************************************************)
(* core/deps.py                                                            *)
(***************************************************************************)
\* the dependency's result: the status it answers with and, on 200, the user
\* the resolver returning the looked-up user unchecked, so that a missing
\* user breaks the endpoint
get_current_user_CrashOnMissing(token, db, clock) ==
    LET Unauthorized == [status |-> 401, detail |-> "credentials", principal |-> None]
        decoded == JwtDecode(token, SECRET_KEY, ALGORITHM, clock)
    IN IF ~decoded.ok THEN Unauthorized
       ELSE LET github_id_str == decoded.payload.sub
            IN IF github_id_str = None THEN Unauthorized
               ELSE LET github_id == ParseInt(github_id_str[1])
                    IN IF github_id = None THEN Unauthorized
                       ELSE LET user == get_user_by_github_id(db, github_id[1])
                            IN IF user = None
                               THEN [status |-> 500, detail |-> "AttributeError",
                                     principal |-> None]
                               ELSE [status |-> 200, detail |-> "", principal |-> user]

\* the user resolver telling the caller that the token's user is not stored
get_current_user_NotFound(token, db, clock) ==
    LET Unauthorized == [status |-> 401, detail |-> "credentials", principal |-> None]
        decoded == JwtDecode(token, SECRET_KEY, ALGORITHM, clock)
    IN IF ~decoded.ok THEN Unauthorized
       ELSE LET github_id_str == decoded.payload.sub
            IN IF github_id_str = None THEN Unauthorized
               ELSE LET github_id == ParseInt(github_id_str[1])
                    IN IF github_id = None THEN Unauthorized
                       ELSE LET user == get_user_by_github_id(db, github_id[1])
                            IN IF user = None
                               THEN [status |-> 404, detail |-> "user_not_found",
                                     principal |-> None]
                               ELSE [status |-> 200, detail |-> "", principal |-> user]

get_current_user(token, db, clock) ==
    LET Unauthorized == [status |-> 401, detail |-> "credentials", principal |-> None]
        decoded == JwtDecode(token, SECRET_KEY, ALGORITHM, clock)
    IN IF ~decoded.ok THEN Unauthorized
       ELSE LET github_id_str == decoded.payload.sub
            IN IF github_id_str = None THEN Unauthorized
               ELSE LET github_id == ParseInt(github_id_str[1])
                    IN IF github_id = None THEN Unauthorized
                       ELSE LET user == get_user_by_github_id(db, github_id[1])
                            IN IF user = None THEN Unauthorized
                               ELSE [status |-> 200, detail |-> "", principal |-> user]

\* payload.get("scopes", [])
ScopesOf(payload) == IF payload.scopes = None THEN <<>> ELSE payload.scopes[1]

\* the service resolver without the comparison with the registered client id
get_current_service_NoClientCheck(token, service_client_id, clock) ==
    LET Unauthorized == [status |-> 401, detail |-> "service_credentials",
                         principal |-> None]
        decoded == JwtDecode(token, SECRET_KEY, ALGORITHM, clock)
    IN IF ~decoded.ok THEN Unauthorized
       ELSE LET client_id == decoded.payload.sub
            IN IF client_id = None THEN Unauthorized
               ELSE IF FALSE
               THEN [status |-> 403, detail |-> "unauthorized_service_client",
                     principal |-> None]
               ELSE [status |-> 200, detail |-> "",
                     principal |-> Some([client_id |-> client_id[1],
                                         scopes |-> ScopesOf(decoded.payload)])]

get_current_service(token, service_client_id, clock) ==
    LET Unauthorized == [status |-> 401, detail |-> "service_credentials",
                         principal |-> None]
        decoded == JwtDecode(token, SECRET_KEY, ALGORITHM, clock)
    IN IF ~decoded.ok THEN Unauthorized
       ELSE LET client_id == decoded.payload.sub
            IN IF client_id = None THEN Unauthorized
               ELSE IF client_id[1] # service_client_id
               THEN [status |-> 403, detail |-> "unauthorized_service_client",
                     principal |-> None]
               ELSE [status |-> 200, detail |-> "",
                     principal |-> Some([client_id |-> client_id[1],
                                         scopes |-> ScopesOf(decoded.payload)])]

get_current_qq_user(token, db, key, clock) ==
    LET Unauthorized == [status |-> 401, detail |-> "qq_credentials", principal |-> None]
        decoded == JwtDecode(token, key, QQ_JWT_ALGORITHM, clock)
    IN IF ~decoded.ok THEN Unauthorized
       ELSE LET openid == decoded.payload.sub
            IN IF openid = None THEN Unauthorized
               ELSE LET user == get_qq_user_by_openid(db, openid[1])
                    IN IF user = None THEN Unauthorized
                       ELSE [status |-> 200, detail |-> "", principal |-> user]

\* a request to an endpoint that depends on get_current_user
GetCurrentUser(token) ==
    /\ LET r == get_current_user(token, fake_users_db, now)
       IN resp' = TokenResponse("get_current_user", token, r.status, r.detail,
                                r.principal, None)
    /\ UNCHANGED <<session, issued, fake_users_db, qq_user_db, now,
                   QQ_JWT_SECRET_KEY, SERVICE_CLIENT_ID, inflight>>

\* a request to an endpoint that depends on get_current_service
GetCurrentService(token) ==
    /\ LET r == get_current_service(token, SERVICE_CLIENT_ID, now)
       IN resp' = TokenResponse("get_current_service", token, r.status, r.detail,
                                r.principal, None)
    /\ UNCHANGED <<session, issued, fake_users_db, qq_user_db, now,
                   QQ_JWT_SECRET_KEY, SERVICE_CLIENT_ID, inflight>>

\* a request to an endpoint that depends on get_current_qq_user
GetCurrentQQUser(token) ==
    /\ LET r == get_current_qq_user(token, qq_user_db, QQ_JWT_SECRET_KEY, now)
       IN resp' = TokenResponse("get_current_qq_user", token, r.status, r.detail,
                                r.principal, None)
    /\ UNCHANGED <<session, issued, fake_users_db, qq_user_db, now,
                   QQ_JWT_SECRET_KEY, SERVICE_CLIENT_ID, inflight>>

\* the active-user dependency without its check
get_current_active_user_NoCheck(current_user) == current_user

\* get_current_active_user, layered on what get_current_user returned or
\* raised
get_current_active_user(current_user) ==
    IF current_user.status # 200 THEN current_user
    ELSE IF current_user.principal[1].disabled
    THEN [status |-> 400, detail |-> "user_disabled", principal |-> None]
    ELSE current_user

\* GET /users/me/ and GET /users/me/items/
GetCurrentActiveUser(token) ==
    /\ LET r == get_current_active_user(get_current_user(token, fake_users_db, now))
       IN resp' = TokenResponse("get_current_active_user", token, r.status, r.detail,
                                r.principal, None)
    /\ UNCHANGED <<session, issued, fake_users_db, qq_user_db, now,
                   QQ_JWT_SECRET_KEY, SERVICE_CLIENT_ID, inflight>>

\* the endpoint without its scope check
read_service_data_NoScopeCheck(current_service) ==
    LET required_scope == "read:service_data"
    IN IF current_service.status # 200 THEN current_service
       ELSE IF FALSE
       THEN [status |-> 403, detail |-> "insufficient_scope", principal |-> None]
       ELSE current_service

\* the body of GET /service/to/access/data, layered on what
\* get_current_service returned or raised
read_service_data(current_service) ==
    LET required_scope == "read:service_data"
    IN IF current_service.status # 200 THEN current_service
       ELSE IF \A i \in 1..Len(current_service.principal[1].scopes) :
                   current_service.principal[1].scopes[i] # required_scope
       THEN [status |-> 403, detail |-> "insufficient_scope", principal |-> None]
       ELSE current_service

\* GET /service/to/access/data
ReadServiceData(token) ==
    /\ LET r == read_service_data(get_current_service(token, SERVICE_CLIENT_ID, now))
       IN resp' = TokenResponse("read_service_data", token, r.status, r.detail,
                                r.principal, None)
    /\ UNCHANGED <<session, issued, fake_users_db, qq_user_db, now,
                   QQ_JWT_SECRET_KEY, SERVICE_CLIENT_ID, inflight>>

(***************************************************************************)
(* Administration outside the program: an operator sets disabled on a     *)
(* stored GitHub user, or removes a user from a store.  A QQUser has no    *)
(* disabled field.                                                         *)
(***************************************************************************)
AdminDone(op, subject) == [NoResponse EXCEPT !.op = op, !.detail = subject]

DisableUser(github_id) ==
    /\ github_id \in DOMAIN fake_users_db
    /\ ~fake_users_db[github_id].disabled
    /\ fake_users_db' = [fake_users_db EXCEPT ![github_id].disabled = TRUE]
    /\ resp' = AdminDone("admin_disable", Str(github_id))
    /\ UNCHANGED <<session, issued, qq_user_db, now, QQ_JWT_SECRET_KEY,
                   SERVICE_CLIENT_ID, inflight>>

DeleteUser(github_id) ==
    /\ github_id \in DOMAIN fake_users_db
    /\ fake_users_db' = Pop(fake_users_db, github_id)
    /\ resp' = AdminDone("admin_delete", Str(github_id))
    /\ UNCHANGED <<session, issued, qq_user_db, now, QQ_JWT_SECRET_KEY,
                   SERVICE_CLIENT_ID, inflight>>

DeleteQQUser(openid) ==
    /\ openid \in DOMAIN qq_user_db
    /\ qq_user_db' = Pop(qq_user_db, openid)
    /\ resp' = AdminDone("admin_delete_qq", openid)
    /\ UNCHANGED <<session, issued, fake_users_db, now, QQ_JWT_SECRET_KEY,
                   SERVICE_CLIENT_ID, inflight>>

(***************************************************************************)
(* The refresh endpoints and core/v1/service_auth.py                       *)
(***************************************************************************)
\* the refresh endpoint without the check of disabled
refresh_access_token_NoDisabledCheck(refresh_token, db, clock) ==
    LET Unauthorized == [status |-> 401, detail |-> "refresh_credentials",
                         access_token |-> None]
        decoded == JwtDecode(refresh_token, SECRET_KEY, ALGORITHM, clock)
    IN IF ~decoded.ok THEN Unauthorized
       ELSE LET github_id_str == decoded.payload.sub
            IN IF github_id_str = None THEN Unauthorized
               ELSE LET github_id == ParseInt(github_id_str[1])
                    IN IF github_id = None THEN Unauthorized
                       ELSE LET user == get_user_by_github_id(db, github_id[1])
                            IN IF user = None THEN Unauthorized
                               ELSE [status |-> 200, detail |-> "",
                                     access_token |->
                                        Some(create_access_token(
                                            Data(Str(user[1].github_id), None),
                                            Some(timedelta_minutes(ACCESS_TOKEN_EXPIRE_MINUTES)), clock))]

\* the refresh endpoint putting the username into sub, as an earlier version
\* of the tokens did
refresh_access_token_UsernameSub(refresh_token, db, clock) ==
    LET Unauthorized == [status |-> 401, detail |-> "refresh_credentials",
                         access_token |-> None]
        decoded == JwtDecode(refresh_token, SECRET_KEY, ALGORITHM, clock)
    IN IF ~decoded.ok THEN Unauthorized
       ELSE LET github_id_str == decoded.payload.sub
            IN IF github_id_str = None THEN Unauthorized
               ELSE LET github_id == ParseInt(github_id_str[1])
                    IN IF github_id = None THEN Unauthorized
                       ELSE LET user == get_user_by_github_id(db, github_id[1])
                            IN IF user = None \/ user[1].disabled THEN Unauthorized
                               ELSE [status |-> 200, detail |-> "",
                                     access_token |->
                                        Some(create_access_token(
                                            Data(user[1].username[1], None),
                                            Some(timedelta_minutes(ACCESS_TOKEN_EXPIRE_MINUTES)), clock))]

\* POST /code/to/access/token/refresh: the status and, on 200, the new
\* access token (the response carries no refresh token)
refresh_access_token(refresh_token, db, clock) ==
    LET Unauthorized == [status |-> 401, detail |-> "refresh_credentials",
                         access_token |-> None]
        decoded == JwtDecode(refresh_token, SECRET_KEY, ALGORITHM, clock)
    IN IF ~decoded.ok THEN Unauthorized
       ELSE LET github_id_str == decoded.payload.sub
            IN IF github_id_str = None THEN Unauthorized
               ELSE LET github_id == ParseInt(github_id_str[1])
                    IN IF github_id = None THEN Unauthorized
                       ELSE LET user == get_user_by_github_id(db, github_id[1])
                            IN IF user = None \/ user[1].disabled THEN Unauthorized
                               ELSE [status |-> 200, detail |-> "",
                                     access_token |->
                                        Some(create_access_token(
                                            Data(Str(user[1].github_id), None),
                                            Some(timedelta_minutes(ACCESS_TOKEN_EXPIRE_MINUTES)), clock))]

\* POST /auth/qq/token/refresh
refresh_qq_token(refresh_token, db, key, clock) ==
    LET Unauthorized == [status |-> 401, detail |-> "qq_refresh_credentials",
                         access_token |-> None]
        decoded == JwtDecode(refresh_token, key, QQ_JWT_ALGORITHM, clock)
    IN IF ~decoded.ok THEN Unauthorized
       ELSE LET openid == decoded.payload.sub
            IN IF openid = None THEN Unauthorized
               ELSE LET user == get_qq_user_by_openid(db, openid[1])
                    IN IF user = None THEN Unauthorized
                       ELSE [status |-> 200, detail |-> "",
                             access_token |->
                                Some(create_internal_qq_access_token(
                                    Data(user[1].openid, None),
                                    Some(timedelta_minutes(QQ_ACCESS_TOKEN_EXPIRE_MINUTES)), clock, key))]

\* the GitHub refresh endpoint clearing every session as it answers
RefreshAccessToken_ClearsSessions(refresh_token) ==
    /\ LET r == refresh_access_token(refresh_token, fake_users_db, now)
       IN resp' = TokenResponse("refresh_github", refresh_token, r.status, r.detail,
                                None, r.access_token)
    /\ session' = [sid \in Sessions |-> EmptyDict]
    /\ UNCHANGED <<issued, fake_users_db, qq_user_db, now,
                   QQ_JWT_SECRET_KEY, SERVICE_CLIENT_ID, inflight>>

\* a request to the GitHub refresh endpoint
RefreshAccessToken(refresh_token) ==
    /\ LET r == refresh_access_token(refresh_token, fake_users_db, now)
       IN resp' = TokenResponse("refresh_github", refresh_token, r.status, r.detail,
                                None, r.access_token)
    /\ UNCHANGED <<session, issued, fake_users_db, qq_user_db, now,
                   QQ_JWT_SECRET_KEY, SERVICE_CLIENT_ID, inflight>>

\* a request to the QQ refresh endpoint
RefreshQQToken(refresh_token) ==
    /\ LET r == refresh_qq_token(refresh_token, qq_user_db, QQ_JWT_SECRET_KEY, now)
       IN resp' = TokenResponse("refresh_qq", refresh_token, r.status, r.detail,
                                None, r.access_token)
    /\ UNCHANGED <<session, issued, fake_users_db, qq_user_db, now,
                   QQ_JWT_SECRET_KEY, SERVICE_CLIENT_ID, inflight>>

DefaultScopes == <<"read:service_data", "write:service_log">>

\* POST /service/to/access/token
\* the token endpoint comparing the client id only
login_service_for_access_token_IdOnly(client_id, client_secret) ==
    /\ IF client_id # SERVICE_CLIENT_ID
       THEN resp' = TokenResponse("service_token",
                                  [client_id |-> client_id,
                                   client_secret |-> client_secret],
                                  401, "client_credentials", None, None)
       ELSE resp' = TokenResponse("service_token",
                       [client_id |-> client_id, client_secret |-> client_secret], 200,
                       "", None,
                       Some(create_service_access_token(
                           Data(client_id, Some(DefaultScopes)),
                           Some(timedelta_minutes(SERVICE_ACCESS_TOKEN_EXPIRE_MINUTES)), now)))
    /\ UNCHANGED <<session, issued, fake_users_db, qq_user_db, now,
                   QQ_JWT_SECRET_KEY, SERVICE_CLIENT_ID, inflight>>

login_service_for_access_token(client_id, client_secret) ==
    /\ IF client_id # SERVICE_CLIENT_ID \/ client_secret # SERVICE_CLIENT_SECRET
       THEN resp' = TokenResponse("service_token",
                                  [client_id |-> client_id,
                                   client_secret |-> client_secret],
                                  401, "client_credentials", None, None)
       ELSE resp' = TokenResponse("service_token",
                       [client_id |-> client_id, client_secret |-> client_secret], 200,
                       "", None,
                       Some(create_service_access_token(
                           Data(client_id, Some(DefaultScopes)),
                           Some(timedelta_minutes(SERVICE_ACCESS_TOKEN_EXPIRE_MINUTES)), now)))
    /\ UNCHANGED <<session, issued, fake_users_db, qq_user_db, now,
                   QQ_JWT_SECRET_KEY, SERVICE_CLIENT_ID, inflight>>

(***************************************************************************)
(* The program after start-up with the default configuration, and the      *)
(* requests it serves.                                                     *)
(***************************************************************************)
Init ==
    /\ session = [s \in Sessions |-> EmptyDict]
    /\ issued = 0
    /\ fake_users_db = EmptyDict
    /\ qq_user_db = EmptyDict
    /\ now = 0
    /\ QQ_JWT_SECRET_KEY = DefaultQQKey
    /\ SERVICE_CLIENT_ID = DefaultServiceClientId
    /\ inflight = [s \in Sessions |-> None]
    /\ resp = NoResponse

LoginGithub == \E sid \in Sessions : login_via_github(sid)

CallbackGithub ==
    \E sid \in Sessions, state \in StateValues : code_to_access(sid, state)

LoginQQ == \E sid \in Sessions : login_via_qq(sid)

CallbackQQ ==
    \E sid \in Sessions, state \in StateValues : auth_qq_callback(sid, state)

Next ==
    \/ LoginGithub
    \/ CallbackGithub
    \/ LoginQQ
    \/ CallbackQQ

Spec == Init /\ [][Next]_vars

(***************************************************************************)
(* The token endpoints after two users have logged in.  The program is in  *)
(* the state the callback of the GitHub user leaves at time 0, the QQ user *)
(* having logged in before; the environment may have set the QQ key and    *)
(* the service client id.                                                  *)
(***************************************************************************)
AliceProfile == [id |-> 1, login |-> "alice"]
NickInfo == get_qq_user_info([raised |-> FALSE,
                json |-> [ret |-> 0, msg |-> "", nickname |-> "nick",
                          figureurl_qq_1 |-> "f40"]])[1]

\* the tokens the two callbacks returned at time 0
GithubAccess0 ==
    create_access_token(Data(Str(1), None), Some(timedelta_minutes(ACCESS_TOKEN_EXPIRE_MINUTES)), 0)
GithubRefresh0 ==
    create_refresh_token(Data(Str(1), None), Some(timedelta_minutes(REFRESH_TOKEN_EXPIRE_MINUTES)), 0)
QQAccess0(key) ==
    create_internal_qq_access_token(Data("o1", None),
                                    Some(timedelta_minutes(QQ_ACCESS_TOKEN_EXPIRE_MINUTES)), 0, key)
QQRefresh0(key) ==
    create_internal_qq_refresh_token(Data("o1", None),
                                     Some(timedelta_days(QQ_REFRESH_TOKEN_EXPIRE_DAYS)), 0, key)

InitTokens ==
    /\ session = [s \in Sessions |-> EmptyDict]
    /\ issued = MaxStates
    /\ fake_users_db = add_or_update_user(EmptyDict, AliceProfile).db
    /\ qq_user_db = get_or_create_qq_user(EmptyDict, "o1", NickInfo).db
    /\ now = 0
    /\ QQ_JWT_SECRET_KEY \in QQKeys
    /\ SERVICE_CLIENT_ID \in ServiceClientIds
    /\ inflight = [s \in Sessions |-> None]
    /\ resp = Response("callback_github", "s1", <<MaxStates>>, 200, "",
                       <<"state_validated", "code_exchanged", "profile_fetched",
                         "user_resolved", "tokens_issued">>,
                       <<[raised |-> FALSE, json |-> [access_token |-> "gho_1"]],
                         [raised |-> FALSE, json |-> AliceProfile]>>,
                       Some(GithubAccess0), Some(GithubRefresh0))

\* the instants the clock is read at: the start, a fraction of a second
\* later, and the last tick and the tick after it of each lifetime that
\* began in the first second
Instants ==
    {0, 1} \cup UNION {{t + TicksPerSecond - 1, t + TicksPerSecond} :
                         t \in {timedelta_minutes(ACCESS_TOKEN_EXPIRE_MINUTES),
                                timedelta_minutes(QQ_ACCESS_TOKEN_EXPIRE_MINUTES),
                                timedelta_minutes(REFRESH_TOKEN_EXPIRE_MINUTES)}}

Tick ==
    /\ \E t \in Instants : t > now /\ now' = t
    /\ UNCHANGED <<session, issued, fake_users_db, qq_user_db,
                   QQ_JWT_SECRET_KEY, SERVICE_CLIENT_ID, inflight, resp>>

\* an expiry as far away as a refresh token's
FarFuture == timedelta_minutes(REFRESH_TOKEN_EXPIRE_MINUTES)

\* tokens nobody issued: no JWT at all, a foreign key, another algorithm, no
\* sub, no exp, a sub that is no number, a number written another way, and
\* subjects unknown to the stores
OddTokens ==
    {Garbage,
     JwtEncode(WithExp(Data("1", None), FarFuture), "K0", ALGORITHM),
     JwtEncode(WithExp(Data("1", None), FarFuture), SECRET_KEY, "HS512"),
     JwtEncode([sub |-> None, scopes |-> None, exp |-> Some(timedelta_minutes(FarFuture))],
               SECRET_KEY, ALGORITHM),
     JwtEncode([sub |-> Some("1"), scopes |-> None, exp |-> None], SECRET_KEY, ALGORITHM),
     JwtEncode(WithExp(Data("abc", None), FarFuture), SECRET_KEY, ALGORITHM),
     JwtEncode(WithExp(Data("01", None), FarFuture), SECRET_KEY, ALGORITHM),
     JwtEncode(WithExp(Data("2", None), FarFuture), SECRET_KEY, ALGORITHM),
     JwtEncode(WithExp(Data("o2", None), FarFuture), DefaultQQKey,
               QQ_JWT_ALGORITHM)}

\* the tokens a caller can present: those the logins returned, those of the
\* last response, and the odd ones
TokenInputs ==
    {GithubAccess0, GithubRefresh0, QQAccess0(QQ_JWT_SECRET_KEY),
     QQRefresh0(QQ_JWT_SECRET_KEY)}
    \cup OddTokens
    \cup {resp.access_token[i] : i \in 1..Len(resp.access_token)}
    \cup {resp.refresh_token[i] : i \in 1..Len(resp.refresh_token)}
    \cup (IF resp.op # "service_token"
          THEN {resp.presented[i] : i \in 1..Len(resp.presented)} ELSE {})

ResolveUser == \E token \in TokenInputs : GetCurrentUser(token)
ResolveService == \E token \in TokenInputs : GetCurrentService(token)
ResolveQQUser == \E token \in TokenInputs : GetCurrentQQUser(token)
RefreshGithub == \E token \in TokenInputs : RefreshAccessToken(token)
RefreshQQ == \E token \in TokenInputs : RefreshQQToken(token)
ServiceToken ==
    \E client_id \in {SERVICE_CLIENT_ID, "intruder"},
       client_secret \in {SERVICE_CLIENT_SECRET, "guess"} :
        login_service_for_access_token(client_id, client_secret)

NextTokens ==
    \/ Tick
    \/ ResolveUser
    \/ ResolveService
    \/ ResolveQQUser
    \/ RefreshGithub
    \/ RefreshQQ
    \/ ServiceToken

SpecTokens == InitTokens /\ [][NextTokens]_vars

(***************************************************************************)
(* The login flows with an operator who disables users.                    *)
(***************************************************************************)
Disable == \E github_id \in DOMAIN fake_users_db : DisableUser(github_id)

NextUsers ==
    \/ LoginGithub
    \/ CallbackGithub
    \/ LoginQQ
    \/ CallbackQQ
    \/ Disable

SpecUsers == Init /\ [][NextUsers]_vars

(***************************************************************************)
(* The callbacks as the event loop runs them.  A callback is a coroutine:  *)
(* it runs without interruption up to an await of an outbound request, is  *)
(* suspended there while other requests are served, and resumes with the   *)
(* provider's answer.  inflight holds, for the one callback a session has  *)
(* outstanding, the state it was called with and the answers it has got.   *)
(***************************************************************************)
Suspended(op, state, calls) == Some([op |-> op, state |-> state, calls |-> calls])

\* the callback of the session waits for its answer number n + 1
Awaits(sid, op, n) ==
    /\ inflight[sid] # None
    /\ inflight[sid][1].op = op
    /\ Len(inflight[sid][1].calls) = n

Resume(sid, op, state, calls) ==
    inflight' = [inflight EXCEPT ![sid] = Suspended(op, state, calls)]

Finish(sid) == inflight' = [inflight EXCEPT ![sid] = None]

\* code_to_access up to the await of the token request
code_to_access_begin(sid, state) ==
    LET expected_state == Get(session[sid], "oauth_state")
    IN /\ inflight[sid] = None
       /\ IF StateRejected(expected_state, state)
          THEN /\ resp' = Response("callback_github", sid, state, 403, "invalid_state",
                                   <<>>, <<>>, None, None)
               /\ UNCHANGED <<session, inflight>>
          ELSE /\ session' = [session EXCEPT ![sid] = Pop(@, "oauth_state")]
               /\ Resume(sid, "callback_github", state, <<>>)
               /\ UNCHANGED resp
       /\ UNCHANGED <<issued, fake_users_db, qq_user_db, now, QQ_JWT_SECRET_KEY,
                      SERVICE_CLIENT_ID>>

\* code_to_access from the answer to the token request to the await of the
\* profile request
code_to_access_token(sid) ==
    /\ Awaits(sid, "callback_github", 0)
    /\ LET state == inflight[sid][1].state
       IN \E token_response \in GithubTokenResponses :
            LET github_token == Get(token_response.json, "access_token")
                c1 == <<token_response>>
            IN IF token_response.raised
               THEN GithubFail(sid, state, 500, "github_token_failed", <<>>, c1)
                    /\ Finish(sid)
               ELSE IF ~Truthy(github_token)
               THEN GithubFail(sid, state, 500, "github_response_invalid", <<>>, c1)
                    /\ Finish(sid)
               ELSE /\ Resume(sid, "callback_github", state, c1)
                    /\ UNCHANGED <<resp, fake_users_db>>
    /\ UNCHANGED <<session, issued, qq_user_db, now, QQ_JWT_SECRET_KEY,
                   SERVICE_CLIENT_ID>>

\* code_to_access from the answer to the profile request to its response
code_to_access_user(sid) ==
    /\ Awaits(sid, "callback_github", 1)
    /\ LET state == inflight[sid][1].state
       IN \E user_response \in GithubUserResponses :
            LET user_data == user_response.json
                c2 == inflight[sid][1].calls \o <<user_response>>
            IN IF user_response.raised
               THEN GithubFail(sid, state, 500, "github_user_failed",
                               <<"code_exchanged">>, c2)
               ELSE IF user_data = EmptyDict \/ "id" \notin DOMAIN user_data
               THEN GithubFail(sid, state, 500, "github_user_unparsable",
                               <<"code_exchanged">>, c2)
               ELSE GithubIssue(sid, state, user_data, c2)
    /\ Finish(sid)
    /\ UNCHANGED <<session, issued, qq_user_db, now, QQ_JWT_SECRET_KEY,
                   SERVICE_CLIENT_ID>>

\* auth_qq_callback up to the await of exchange_code_for_qq_token
auth_qq_callback_begin(sid, state) ==
    LET expected_state == Get(session[sid], "qq_oauth_state")
    IN /\ inflight[sid] = None
       /\ IF StateRejected(expected_state, state)
          THEN /\ resp' = Response("callback_qq", sid, state, 403, "invalid_state",
                                   <<>>, <<>>, None, None)
               /\ UNCHANGED <<session, inflight>>
          ELSE /\ session' = [session EXCEPT ![sid] = Pop(@, "qq_oauth_state")]
               /\ Resume(sid, "callback_qq", state, <<>>)
               /\ UNCHANGED resp
       /\ UNCHANGED <<issued, fake_users_db, qq_user_db, now, QQ_JWT_SECRET_KEY,
                      SERVICE_CLIENT_ID>>

\* auth_qq_callback from the result of exchange_code_for_qq_token to the
\* await of get_qq_openid
auth_qq_callback_token(sid) ==
    /\ Awaits(sid, "callback_qq", 0)
    /\ LET state == inflight[sid][1].state
       IN \E token_response \in QQTokenResponses :
            LET access_token == exchange_code_for_qq_token(token_response)
                c1 == <<token_response>>
            IN IF ~Truthy(access_token)
               THEN QQFail(sid, state, 503, "qq_token_failed", <<>>, c1) /\ Finish(sid)
               ELSE /\ Resume(sid, "callback_qq", state, c1)
                    /\ UNCHANGED <<resp, qq_user_db>>
    /\ UNCHANGED <<session, issued, fake_users_db, now, QQ_JWT_SECRET_KEY,
                   SERVICE_CLIENT_ID>>

\* auth_qq_callback from the result of get_qq_openid to the await of
\* get_qq_user_info
auth_qq_callback_openid(sid) ==
    /\ Awaits(sid, "callback_qq", 1)
    /\ LET state == inflight[sid][1].state
       IN \E openid_response \in QQOpenidResponses :
            LET openid == get_qq_openid(openid_response)
                c2 == inflight[sid][1].calls \o <<openid_response>>
            IN IF ~Truthy(openid)
               THEN QQFail(sid, state, 503, "qq_openid_failed", <<"code_exchanged">>, c2)
                    /\ Finish(sid)
               ELSE /\ Resume(sid, "callback_qq", state, c2)
                    /\ UNCHANGED <<resp, qq_user_db>>
    /\ UNCHANGED <<session, issued, fake_users_db, now, QQ_JWT_SECRET_KEY,
                   SERVICE_CLIENT_ID>>

\* auth_qq_callback from the result of get_qq_user_info to its response
auth_qq_callback_info(sid) ==
    /\ Awaits(sid, "callback_qq", 2)
    /\ LET state == inflight[sid][1].state
           openid == get_qq_openid(inflight[sid][1].calls[2])
       IN \E info_response \in QQUserInfoResponses :
            LET user_info == get_qq_user_info(info_response)
                c3 == inflight[sid][1].calls \o <<info_response>>
            IN IF user_info = None
               THEN QQFail(sid, state, 503, "qq_user_info_failed",
                           <<"code_exchanged">>, c3)
               ELSE QQIssue(sid, state, openid[1], user_info[1], c3)
    /\ Finish(sid)
    /\ UNCHANGED <<session, issued, fake_users_db, now, QQ_JWT_SECRET_KEY,
                   SERVICE_CLIENT_ID>>

CallbackGithubBegin ==
    \E sid \in Sessions, state \in StateValues : code_to_access_begin(sid, state)
GithubTokenAnswered == \E sid \in Sessions : code_to_access_token(sid)
GithubUserAnswered == \E sid \in Sessions : code_to_access_user(sid)
CallbackQQBegin ==
    \E sid \in Sessions, state \in StateValues : auth_qq_callback_begin(sid, state)
QQTokenAnswered == \E sid \in Sessions : auth_qq_callback_token(sid)
QQOpenidAnswered == \E sid \in Sessions : auth_qq_callback_openid(sid)
QQInfoAnswered == \E sid \in Sessions : auth_qq_callback_info(sid)

NextConcurrent ==
    \/ LoginGithub
    \/ LoginQQ
    \/ CallbackGithubBegin
    \/ GithubTokenAnswered
    \/ GithubUserAnswered
    \/ CallbackQQBegin
    \/ QQTokenAnswered
    \/ QQOpenidAnswered
    \/ QQInfoAnswered

SpecConcurrent == Init /\ [][NextConcurrent]_vars

\* the GitHub callbacks as the event loop runs them, with an operator who
\* disables users in between
NextUpsert ==
    \/ LoginGithub
    \/ CallbackGithubBegin
    \/ GithubTokenAnswered
    \/ GithubUserAnswered
    \/ Disable

SpecUpsert == Init /\ [][NextUpsert]_vars

(***************************************************************************)
(* The token endpoints and the protected endpoints with an operator who    *)
(* disables and removes users.                                             *)
(***************************************************************************)
ResolveActiveUser == \E token \in TokenInputs : GetCurrentActiveUser(token)
ReadService == \E token \in TokenInputs : ReadServiceData(token)
Delete == \E github_id \in DOMAIN fake_users_db : DeleteUser(github_id)
DeleteQQ == \E openid \in DOMAIN qq_user_db : DeleteQQUser(openid)

NextAdmin ==
    \/ Tick
    \/ ResolveUser
    \/ ResolveActiveUser
    \/ ResolveService
    \/ ReadService
    \/ ResolveQQUser
    \/ RefreshGithub
    \/ RefreshQQ
    \/ ServiceToken
    \/ Disable
    \/ Delete
    \/ DeleteQQ

\* the state after the two logins, the QQ key being the one of the default
\* configuration
InitAdmin == InitTokens /\ QQ_JWT_SECRET_KEY = DefaultQQKey

SpecAdmin == InitAdmin /\ [][NextAdmin]_vars

\* the GitHub login flow and the user resolver while time passes
NextGithub ==
    \/ LoginGithub
    \/ CallbackGithub
    \/ ResolveUser
    \/ Tick

SpecGithub == Init /\ [][NextGithub]_vars

(***************************************************************************)
(* The GitHub login flow and the QQ login beside every endpoint that takes *)
(* a token or service credentials.                                         *)
(***************************************************************************)
NextReadOnly ==
    \/ LoginGithub
    \/ CallbackGithub
    \/ LoginQQ
    \/ ResolveUser
    \/ ResolveActiveUser
    \/ ResolveService
    \/ ReadService
    \/ ResolveQQUser
    \/ RefreshGithub
    \/ RefreshQQ
    \/ ServiceToken

SpecReadOnly == Init /\ [][NextReadOnly]_vars

(***************************************************************************)
(* The GitHub login flow, the GitHub endpoints that take a token, an       *)
(* operator who disables users, and the clock.                             *)
(***************************************************************************)
NextDisabled ==
    \/ LoginGithub
    \/ CallbackGithub
    \/ ResolveActiveUser
    \/ RefreshGithub
    \/ Disable
    \/ Tick

SpecDisabled == Init /\ [][NextDisabled]_vars

(***************************************************************************)
(* Vocabulary of the properties.                                           *)
(***************************************************************************)
FullSteps == <<"state_validated", "code_exchanged", "profile_fetched",
               "user_resolved", "tokens_issued">>
IsCallback(r) == r.op \in {"callback_github", "callback_qq"}
StateKey(r) == IF r.op \in {"callback_github", "login_github"}
               THEN "oauth_state" ELSE "qq_oauth_state"
TokensIssued(r) == r.access_token # None \/ r.refresh_token # None
\* the presented state is the one stored for the session
StateMatches(d, key, state) == key \in DOMAIN d /\ d[key] = state

\* what the provider answered, judged on the answer itself
GithubTokenAnswerOK(a) ==
    ~a.raised /\ "access_token" \in DOMAIN a.json /\ a.json.access_token # ""
GithubUserAnswerOK(a) ==
    ~a.raised /\ "id" \in DOMAIN a.json /\ a.json.id # 0 /\ "login" \in DOMAIN a.json
QQTokenAnswerOK(a) ==
    /\ ~a.raised
    /\ \/ /\ a.content_type = "application/json"
          /\ "error" \notin DOMAIN a.json
          /\ "access_token" \in DOMAIN a.json /\ a.json.access_token # ""
       \/ /\ a.content_type \in {"text/plain", "text/html"}
          /\ \E i \in 1..Len(a.text) :
                Len(a.text[i]) = 2 /\ a.text[i][1] = "access_token" /\ a.text[i][2] # ""
QQOpenidAnswerOK(a) ==
    ~a.raised /\ a.json # None /\ "openid" \in DOMAIN a.json[1] /\ a.json[1].openid # ""
QQInfoAnswerOK(a) ==
    ~a.raised /\ "ret" \in DOMAIN a.json /\ "msg" \in DOMAIN a.json /\ a.json.ret = 0
GithubAnswersOK(calls) ==
    Len(calls) = 2 /\ GithubTokenAnswerOK(calls[1]) /\ GithubUserAnswerOK(calls[2])
QQAnswersOK(calls) ==
    /\ Len(calls) = 3
    /\ QQTokenAnswerOK(calls[1]) /\ QQOpenidAnswerOK(calls[2]) /\ QQInfoAnswerOK(calls[3])

\* a rejected callback: 403, no outbound call, both stores as before, no token
RejectedUntouched ==
    /\ resp'.status = 403
    /\ resp'.calls = <<>>
    /\ ~TokensIssued(resp')
    /\ UNCHANGED <<fake_users_db, qq_user_db>>

(***************************************************************************)
(* C1: a callback gets past the state check only when the session holds a  *)
(* stored state and the presented state equals it; every other callback is *)
(* answered 403 without an outbound call, a change of a user store or a    *)
(* token.                                                                  *)
(***************************************************************************)
C1_StateGate ==
    [][\A sid \in Sessions, state \in StateValues :
        /\ code_to_access(sid, state) =>
              IF StateMatches(session[sid], "oauth_state", state)
              THEN resp'.status # 403 /\ Len(resp'.calls) >= 1
              ELSE RejectedUntouched
        /\ auth_qq_callback(sid, state) =>
              IF StateMatches(session[sid], "qq_oauth_state", state)
              THEN resp'.status # 403 /\ Len(resp'.calls) >= 1
              ELSE RejectedUntouched]_vars

\* a callback was refused although the session holds a state: the presented
\* one differs
C1_Witness ==
    /\ resp.op = "callback_qq" /\ resp.status = 403
    /\ "qq_oauth_state" \in DOMAIN session[resp.sid]
    /\ session[resp.sid]["qq_oauth_state"] # resp.state

(***************************************************************************)
(* C2: right after any callback has returned, accepted or refused, the     *)
(* session holds no stored state for that provider.                        *)
(***************************************************************************)
C2_StateClearedAfterCallback ==
    IsCallback(resp) => StateKey(resp) \notin DOMAIN session[resp.sid]

(***************************************************************************)
(* C3: when a callback is invoked twice in a session with the same         *)
(* presented state and no request in between, the second is refused, and   *)
(* it is refused because the session holds no stored state any more: in    *)
(* the state a callback leaves, the state check refuses the state that     *)
(* callback presented, for want of a stored state.                         *)
(***************************************************************************)
C3_SecondCallbackMissingState ==
    IsCallback(resp) =>
        LET expected_state == Get(session[resp.sid], StateKey(resp))
        IN StateRejected(expected_state, resp.state) /\ expected_state = None

(***************************************************************************)
(* C4: once a callback of a session has been refused, for its state or for *)
(* a failed exchange or profile fetch, the next callback of that session   *)
(* issues no tokens unless a login request came in between.                *)
(***************************************************************************)
C4_RejectedIsTerminal ==
    [][\A sid \in Sessions, state \in StateValues :
        /\ (resp.op = "callback_github" /\ resp.sid = sid /\ resp.status # 200
            /\ code_to_access(sid, state))
           => ~TokensIssued(resp')
        /\ (resp.op = "callback_qq" /\ resp.sid = sid /\ resp.status # 200
            /\ auth_qq_callback(sid, state))
           => ~TokensIssued(resp')]_vars

(***************************************************************************)
(* C5: whatever happened before in the session, a login request followed   *)
(* by a callback that presents the state this login issued is never        *)
(* refused for its state, and when the exchange and the profile fetch      *)
(* succeed (GitHub: a usable id and a login name) it ends with an access   *)
(* and a refresh token.                                                    *)
(***************************************************************************)
C5_RetryNotBlocked ==
    [][\A sid \in Sessions :
        /\ (resp.op = "login_github" /\ resp.sid = sid /\ code_to_access(sid, resp.state))
           => /\ resp'.status # 403
              /\ GithubAnswersOK(resp'.calls)
                 => /\ resp'.status = 200
                    /\ resp'.access_token # None /\ resp'.refresh_token # None
        /\ (resp.op = "login_qq" /\ resp.sid = sid /\ auth_qq_callback(sid, resp.state))
           => /\ resp'.status # 403
              /\ QQAnswersOK(resp'.calls)
                 => /\ resp'.status = 200
                    /\ resp'.access_token # None /\ resp'.refresh_token # None]_vars

\* the state of the second login of a run was accepted and tokens issued,
\* while the session still holds the other provider's pending state
C5_Witness ==
    /\ resp.op = "callback_qq" /\ resp.status = 200 /\ resp.state = <<2>>
    /\ TokensIssued(resp)
    /\ "oauth_state" \in DOMAIN session[resp.sid]

(***************************************************************************)
(* C6: a callback issues tokens only after the state was validated, the    *)
(* code exchanged for a provider token, the profile fetched with its       *)
(* identity field and the local user upserted, in this order; the first    *)
(* step that fails ends the callback: no later outbound call is made, no   *)
(* user is written and no token is issued.                                 *)
(***************************************************************************)
C6_StepsInOrder ==
    [][\A sid \in Sessions, state \in StateValues :
        /\ code_to_access(sid, state) =>
            LET r == resp'
                n == Len(r.calls)
            IN /\ TokensIssued(r) <=> r.status = 200
               /\ r.status = 200 =>
                    /\ StateMatches(session[sid], "oauth_state", state)
                    /\ GithubAnswersOK(r.calls)
                    /\ r.calls[2].json.id \in DOMAIN fake_users_db'
                    /\ fake_users_db'[r.calls[2].json.id].github_id = r.calls[2].json.id
                    /\ r.access_token[1].sub = Some(Str(r.calls[2].json.id))
                    /\ r.refresh_token[1].sub = Some(Str(r.calls[2].json.id))
               /\ r.status # 200 => UNCHANGED fake_users_db
               /\ ~StateMatches(session[sid], "oauth_state", state) => n = 0
               /\ n >= 1 /\ ~GithubTokenAnswerOK(r.calls[1]) => n = 1 /\ r.status # 200
               /\ n >= 2 /\ ~GithubUserAnswerOK(r.calls[2]) => r.status # 200
        /\ auth_qq_callback(sid, state) =>
            LET r == resp'
                n == Len(r.calls)
            IN /\ TokensIssued(r) <=> r.status = 200
               /\ r.status = 200 =>
                    /\ StateMatches(session[sid], "qq_oauth_state", state)
                    /\ QQAnswersOK(r.calls)
                    /\ r.calls[2].json[1].openid \in DOMAIN qq_user_db'
                    /\ r.access_token[1].sub = Some(r.calls[2].json[1].openid)
                    /\ r.refresh_token[1].sub = Some(r.calls[2].json[1].openid)
               /\ r.status # 200 => UNCHANGED qq_user_db
               /\ ~StateMatches(session[sid], "qq_oauth_state", state) => n = 0
               /\ n >= 1 /\ ~QQTokenAnswerOK(r.calls[1]) => n = 1 /\ r.status # 200
               /\ n >= 2 /\ ~QQOpenidAnswerOK(r.calls[2]) => n = 2 /\ r.status # 200
               /\ n >= 3 /\ ~QQInfoAnswerOK(r.calls[3]) => r.status # 200]_vars

\* a callback stopped at the profile fetch: the code had been exchanged, and
\* neither a user nor a token came out of it
C6_Witness ==
    /\ resp.op = "callback_github" /\ resp.status = 500
    /\ Len(resp.calls) = 2 /\ GithubTokenAnswerOK(resp.calls[1])
    /\ ~GithubUserAnswerOK(resp.calls[2])
    /\ ~TokensIssued(resp)

(***************************************************************************)
(* Properties of the token endpoints.                                      *)
(***************************************************************************)
\* the tokens of the last response, when it is a 200 of one of the ops
MintedBy(ops) ==
    IF resp.op \in ops /\ resp.status = 200
    THEN {resp.access_token[i] : i \in 1..Len(resp.access_token)}
         \cup {resp.refresh_token[i] : i \in 1..Len(resp.refresh_token)}
    ELSE {}

AcceptedAsGithubUser(token) ==
    \/ get_current_user(token, fake_users_db, now).status = 200
    \/ refresh_access_token(token, fake_users_db, now).status = 200
AcceptedAsQQUser(token) ==
    \/ get_current_qq_user(token, qq_user_db, QQ_JWT_SECRET_KEY, now).status = 200
    \/ refresh_qq_token(token, qq_user_db, QQ_JWT_SECRET_KEY, now).status = 200
AcceptedAsService(token) ==
    get_current_service(token, SERVICE_CLIENT_ID, now).status = 200

\* C7: under every configuration of the QQ key and the service client id, a
\* token minted for one family (GitHub users, QQ users, the service) is never
\* accepted as a principal by a resolver or refresh endpoint of another
\* family.
C7_KeyIsolation ==
    /\ \A token \in MintedBy({"callback_github", "refresh_github"}) :
          ~AcceptedAsQQUser(token) /\ ~AcceptedAsService(token)
    /\ \A token \in MintedBy({"callback_qq", "refresh_qq"}) :
          ~AcceptedAsGithubUser(token) /\ ~AcceptedAsService(token)
    /\ \A token \in MintedBy({"service_token"}) :
          ~AcceptedAsGithubUser(token) /\ ~AcceptedAsQQUser(token)

\* C8: a refresh endpoint called with the valid, unexpired access token a
\* callback has just returned for an existing user answers 401 and mints
\* no token.
C8_AccessTokenNotRefreshable ==
    /\ (resp.op = "callback_github" /\ resp.status = 200)
       => LET r == refresh_access_token(resp.access_token[1], fake_users_db, now)
          IN r.status = 401 /\ r.access_token = None
    /\ (resp.op = "callback_qq" /\ resp.status = 200)
       => LET r == refresh_qq_token(resp.access_token[1], qq_user_db,
                                    QQ_JWT_SECRET_KEY, now)
          IN r.status = 401 /\ r.access_token = None

\* C9: the valid, unexpired refresh token a callback has just returned,
\* presented as the bearer token to a protected user endpoint, is rejected
\* with 401 and resolves to no user.
C9_RefreshTokenNotBearer ==
    /\ (resp.op = "callback_github" /\ resp.status = 200)
       => LET r == get_current_user(resp.refresh_token[1], fake_users_db, now)
          IN r.status = 401 /\ r.principal = None
    /\ (resp.op = "callback_qq" /\ resp.status = 200)
       => LET r == get_current_qq_user(resp.refresh_token[1], qq_user_db,
                                       QQ_JWT_SECRET_KEY, now)
          IN r.status = 401 /\ r.principal = None

\* every signature, subject and expiry a presented token can carry
TokenUniverse ==
    {JwtEncode([sub |-> sub, scopes |-> scopes, exp |-> Some(exp)], key, alg) :
        sub \in {None, Some("1"), Some("o1"), Some(DefaultServiceClientId)},
        scopes \in {None, Some(DefaultScopes)},
        exp \in Instants,
        key \in {"K0", SECRET_KEY, DefaultQQKey},
        alg \in {ALGORITHM, "HS512"}}

IsExpired(token) == token.exp # None /\ token.exp[1] < timegm(now)

DataInputs == {Data("1", None), Data("o1", None),
               Data(DefaultServiceClientId, Some(DefaultScopes))}
DeltaInputs == {None, Some(timedelta_minutes(ACCESS_TOKEN_EXPIRE_MINUTES)),
                Some(timedelta_days(QQ_REFRESH_TOKEN_EXPIRE_DAYS))}

\* the expires_at a creator issues at the current instant
IssuedExpiry(expires_delta, default) ==
    IF expires_delta = None THEN now + default ELSE now + expires_delta[1]

\* the five creators with their family's key and algorithm and their default
\* lifetime
Issuers(data, expires_delta) ==
    {[token |-> create_access_token(data, expires_delta, now),
      key |-> SECRET_KEY, alg |-> ALGORITHM,
      expiry |-> IssuedExpiry(expires_delta,
                              timedelta_minutes(ACCESS_TOKEN_EXPIRE_MINUTES))],
     [token |-> create_refresh_token(data, expires_delta, now),
      key |-> SECRET_KEY, alg |-> ALGORITHM,
      expiry |-> IssuedExpiry(expires_delta,
                              timedelta_minutes(REFRESH_TOKEN_EXPIRE_MINUTES))],
     [token |-> create_service_access_token(data, expires_delta, now),
      key |-> SECRET_KEY, alg |-> ALGORITHM,
      expiry |-> IssuedExpiry(expires_delta,
                              timedelta_minutes(SERVICE_ACCESS_TOKEN_EXPIRE_MINUTES))],
     [token |-> create_internal_qq_access_token(data, expires_delta, now,
                                                QQ_JWT_SECRET_KEY),
      key |-> QQ_JWT_SECRET_KEY, alg |-> QQ_JWT_ALGORITHM,
      expiry |-> IssuedExpiry(expires_delta,
                              timedelta_minutes(QQ_ACCESS_TOKEN_EXPIRE_MINUTES))],
     [token |-> create_internal_qq_refresh_token(data, expires_delta, now,
                                                 QQ_JWT_SECRET_KEY),
      key |-> QQ_JWT_SECRET_KEY, alg |-> QQ_JWT_ALGORITHM,
      expiry |-> IssuedExpiry(expires_delta,
                              timedelta_days(QQ_REFRESH_TOKEN_EXPIRE_DAYS))]}

\* the instants from now to the issued expiry at which the token is verified
VerifyInstants(expiry) == {v \in Instants \cup {now, expiry} : now <= v /\ v <= expiry}

\* C11 as stated: a token issued now, verified with its family's key and
\* algorithm at any instant up to its expiry, yields the subject and the
\* scopes of data and exactly the issued expiry.
C11_RoundTripExact ==
    \A data \in DataInputs, expires_delta \in DeltaInputs :
        \A i \in Issuers(data, expires_delta) : \A v \in VerifyInstants(i.expiry) :
            LET decoded == JwtDecode(i.token, i.key, i.alg, v)
            IN /\ decoded.ok
               /\ decoded.payload.sub = data.sub
               /\ decoded.payload.scopes = data.scopes
               /\ decoded.payload.exp # None
               /\ decoded.payload.exp[1] * TicksPerSecond = i.expiry

\* C11 amended: the same, the expiry read back being the issued expiry cut
\* to whole seconds.
C11_RoundTrip ==
    \A data \in DataInputs, expires_delta \in DeltaInputs :
        \A i \in Issuers(data, expires_delta) : \A v \in VerifyInstants(i.expiry) :
            LET decoded == JwtDecode(i.token, i.key, i.alg, v)
            IN /\ decoded.ok
               /\ decoded.payload.sub = data.sub
               /\ decoded.payload.scopes = data.scopes
               /\ decoded.payload.exp = Some(timegm(i.expiry))
               /\ i.expiry - decoded.payload.exp[1] * TicksPerSecond \in
                      0..(TicksPerSecond - 1)

\* the refresh endpoint minted an access token a fraction of a second after
\* a whole second; its exp is not the instant it was issued to expire at
C11_Witness ==
    /\ resp.op = "refresh_github" /\ resp.status = 200
    /\ now % TicksPerSecond # 0
    /\ resp.access_token =
          Some(create_access_token(Data("1", None),
                   Some(timedelta_minutes(ACCESS_TOKEN_EXPIRE_MINUTES)), now))
    /\ LET decoded == JwtDecode(resp.access_token[1], SECRET_KEY, ALGORITHM, now)
       IN /\ decoded.ok /\ decoded.payload.sub = Some("1")
          /\ decoded.payload.exp[1] * TicksPerSecond
                # now + timedelta_minutes(ACCESS_TOKEN_EXPIRE_MINUTES)

(***************************************************************************)
(* Properties of refresh and of the resolvers when users are disabled or   *)
(* removed.                                                                *)
(***************************************************************************)
\* the token verifies and its subject names a stored GitHub user that is
\* not disabled
GoodGithubRefresh(token) ==
    /\ JwtDecode(token, SECRET_KEY, ALGORITHM, now).ok
    /\ token.sub # None
    /\ \E k \in DOMAIN fake_users_db :
          /\ ParseInt(token.sub[1]) = Some(fake_users_db[k].github_id)
          /\ ~fake_users_db[k].disabled

\* the token verifies and its subject names a stored QQ user (a QQ user has
\* no disabled flag)
GoodQQRefresh(token) ==
    /\ JwtDecode(token, QQ_JWT_SECRET_KEY, QQ_JWT_ALGORITHM, now).ok
    /\ token.sub # None
    /\ token.sub[1] \in DOMAIN qq_user_db

\* the tokens of every signature and subject that expired in the first
\* second or expire as late as a refresh token
SignedTokens ==
    {token \in TokenUniverse : token.exp \in {Some(0), Some(timegm(FarFuture))}}

C13_RefreshReusable ==
    /\ GoodGithubRefresh(GithubRefresh0)
       => LET r == refresh_access_token(GithubRefresh0, fake_users_db, now)
          IN /\ r.status = 200 /\ r.access_token # None
             /\ r.access_token[1].sub = GithubRefresh0.sub
             /\ get_current_user(r.access_token[1], fake_users_db, now).status = 200
    /\ GoodQQRefresh(QQRefresh0(QQ_JWT_SECRET_KEY))
       => LET r == refresh_qq_token(QQRefresh0(QQ_JWT_SECRET_KEY), qq_user_db,
                                    QQ_JWT_SECRET_KEY, now)
          IN /\ r.status = 200 /\ r.access_token # None
             /\ r.access_token[1].sub = QQRefresh0(QQ_JWT_SECRET_KEY).sub
             /\ get_current_qq_user(r.access_token[1], qq_user_db,
                                    QQ_JWT_SECRET_KEY, now).status = 200
    /\ resp.op \in {"refresh_github", "refresh_qq"} => resp.refresh_token = None
    /\ (resp.op = "refresh_github" /\ resp.presented = Some(GithubRefresh0)
        /\ resp.status = 200)
       => resp.access_token[1].sub = GithubRefresh0.sub
    /\ (resp.op = "refresh_qq" /\ resp.presented = Some(QQRefresh0(QQ_JWT_SECRET_KEY))
        /\ resp.status = 200)
       => resp.access_token[1].sub = QQRefresh0(QQ_JWT_SECRET_KEY).sub

\* the refresh token of the login was used after the access token of the
\* login had expired, and is still good for the next use
C13_Witness ==
    /\ resp.op = "refresh_github" /\ resp.presented = Some(GithubRefresh0)
    /\ resp.status = 200 /\ resp.refresh_token = None
    /\ IsExpired(GithubAccess0)
    /\ ~IsExpired(resp.access_token[1])
    /\ GoodGithubRefresh(GithubRefresh0)

(***************************************************************************)
(* Properties of the user stores.                                          *)
(***************************************************************************)
\* the profiles and user infos the providers answer with
GithubProfiles == {r.json : r \in GithubUserResponses}
QQUserInfos == {get_qq_user_info(r)[1] :
                   r \in {q \in QQUserInfoResponses : get_qq_user_info(q) # None}}

\* a user is disabled when it carries the flag and the flag is set
IsDisabled(user) == "disabled" \in DOMAIN user /\ user.disabled

\* the records a store holds for an identity
RecordsOf(db, field, id) == {k \in DOMAIN db : db[k][field] = id}

\* C14: from every store the login flows produce, upserting an identity and
\* upserting it again (with the same or another profile of that identity)
\* returns the same user id, leaves one record for the identity and the
\* other records alone, and returns disabled = false every time when the
\* identity was not stored before; the same profile twice stores and
\* returns the same user.
C14_UpsertIdempotent ==
    /\ \A k \in DOMAIN fake_users_db :
          fake_users_db[k].github_id = k /\ ~IsDisabled(fake_users_db[k])
    /\ \A k \in DOMAIN qq_user_db :
          qq_user_db[k].openid = k /\ ~IsDisabled(qq_user_db[k])
    /\ \A p1 \in GithubProfiles :
          LET u1 == add_or_update_user(fake_users_db, p1)
          IN u1.raised = "" =>
             /\ u1.user[1].github_id = p1.id
             /\ Cardinality(RecordsOf(u1.db, "github_id", p1.id)) = 1
             /\ add_or_update_user(u1.db, p1) = u1
             /\ \A p2 \in {p \in GithubProfiles : Get(p, "id") = Some(p1.id)} :
                   LET u2 == add_or_update_user(u1.db, p2)
                       u3 == add_or_update_user(u2.db, p2)
                   IN u2.raised = "" =>
                      /\ u2.user[1].github_id = u1.user[1].github_id
                      /\ u3.user[1].github_id = u1.user[1].github_id
                      /\ DOMAIN u3.db = DOMAIN u1.db
                      /\ Cardinality(RecordsOf(u3.db, "github_id", p1.id)) = 1
                      /\ \A k \in DOMAIN fake_users_db \ {p1.id} :
                            u3.db[k] = fake_users_db[k]
                      /\ p1.id \notin DOMAIN fake_users_db
                         => /\ ~IsDisabled(u1.user[1]) /\ ~IsDisabled(u2.user[1])
                            /\ ~IsDisabled(u3.user[1])
    /\ \A openid \in {"o1", "o2"}, i1 \in QQUserInfos, i2 \in QQUserInfos :
          LET u1 == get_or_create_qq_user(qq_user_db, openid, i1)
              u2 == get_or_create_qq_user(u1.db, openid, i2)
              u3 == get_or_create_qq_user(u2.db, openid, i2)
          IN /\ u1.user.openid = openid /\ u2.user.openid = openid
             /\ u3 = u2
             /\ get_or_create_qq_user(u1.db, openid, i1) = u1
             /\ DOMAIN u3.db = DOMAIN u1.db
             /\ Cardinality(RecordsOf(u3.db, "openid", openid)) = 1
             /\ \A k \in DOMAIN qq_user_db \ {openid} : u3.db[k] = qq_user_db[k]
             /\ ~IsDisabled(u1.user) /\ ~IsDisabled(u2.user) /\ ~IsDisabled(u3.user)

\* both sessions have completed a GitHub login for the one identity stored;
\* the store is what upserting the last profile again gives
C14_Witness ==
    /\ resp.op = "callback_github" /\ resp.status = 200
    /\ issued >= 2 /\ \A sid \in Sessions : session[sid] = EmptyDict
    /\ qq_user_db = EmptyDict
    /\ DOMAIN fake_users_db = {resp.calls[2].json.id}
    /\ add_or_update_user(fake_users_db, resp.calls[2].json).db = fake_users_db
    /\ ~fake_users_db[resp.calls[2].json.id].disabled

\* C15: in every step of the login flows and of the operator, a stored user
\* that is disabled stays stored and disabled, and every stored user keeps
\* its identity; a step of the login flows changes disabled of no stored
\* user.
C15_DisabledSticky ==
    [][/\ \A k \in DOMAIN fake_users_db :
             /\ k \in DOMAIN fake_users_db'
             /\ fake_users_db'[k].github_id = fake_users_db[k].github_id
             /\ fake_users_db[k].disabled => fake_users_db'[k].disabled
             /\ resp'.op # "admin_disable"
                => fake_users_db'[k].disabled = fake_users_db[k].disabled
       /\ \A k \in DOMAIN qq_user_db :
             /\ k \in DOMAIN qq_user_db'
             /\ qq_user_db'[k].openid = qq_user_db[k].openid
             /\ ~IsDisabled(qq_user_db'[k])]_vars

\* a callback has logged in, with tokens, a user the operator had disabled
\* before, and the user is still disabled
C15_Witness ==
    /\ resp.op = "callback_github" /\ resp.status = 200
    /\ resp.calls[2].json.id \in DOMAIN fake_users_db
    /\ fake_users_db[resp.calls[2].json.id].disabled
    /\ fake_users_db[resp.calls[2].json.id].username = Some(resp.calls[2].json.login)

\* C16: get_current_user resolves the unexpired access token of a stored
\* user to that user with 200 whether or not the user is disabled;
\* get_current_active_user answers 400 exactly when the resolved user is
\* disabled, returns the resolved user unchanged otherwise, and passes a
\* failure of the resolver on.
C16_DisabledCheckIsLayered ==
    /\ \A token \in SignedTokens \cup TokenInputs :
          LET r == get_current_user(token, fake_users_db, now)
              a == get_current_active_user(r)
          IN /\ r.status = 200
                => /\ r.principal # None
                   /\ (a.status = 400) = r.principal[1].disabled
                   /\ r.principal[1].disabled => a.principal = None
                   /\ ~r.principal[1].disabled => a = r
             /\ r.status # 200 => a = r /\ a.status = 401
    /\ (1 \in DOMAIN fake_users_db /\ ~IsExpired(GithubAccess0))
       => LET r == get_current_user(GithubAccess0, fake_users_db, now)
          IN /\ r.status = 200 /\ r.principal = Some(fake_users_db[1])
             /\ get_current_active_user(r).status =
                   IF fake_users_db[1].disabled THEN 400 ELSE 200
    /\ (resp.op = "get_current_active_user" /\ resp.status = 200)
       => ~resp.principal[1].disabled

\* the access token of a disabled user was answered 400 by the endpoint
\* that requires an active user, while the resolver accepts it
C16_Witness ==
    /\ resp.op = "get_current_active_user" /\ resp.presented = Some(GithubAccess0)
    /\ resp.status = 400 /\ resp.principal = None
    /\ 1 \in DOMAIN fake_users_db /\ fake_users_db[1].disabled
    /\ LET r == get_current_user(GithubAccess0, fake_users_db, now)
       IN r.status = 200 /\ r.principal[1].disabled

\* the tokens the logins issued to the GitHub user and to the QQ user
IssuedToGithubUser == {GithubAccess0, GithubRefresh0}
IssuedToQQUser == {QQAccess0(QQ_JWT_SECRET_KEY), QQRefresh0(QQ_JWT_SECRET_KEY)}

\* C17: both user resolvers answer 200 or 401, never anything else; they
\* answer 401 without a principal on a token that fails verification, has
\* no subject, or names no stored user; once a user is removed, the tokens
\* issued to it are answered 401 by the resolvers, by the endpoint that
\* requires an active user and by refresh.
C17_VanishedUserUnauthenticated ==
    /\ \A token \in SignedTokens \cup TokenInputs :
          LET r == get_current_user(token, fake_users_db, now)
              q == get_current_qq_user(token, qq_user_db, QQ_JWT_SECRET_KEY, now)
          IN /\ r.status \in {200, 401} /\ q.status \in {200, 401}
             /\ (\/ ~JwtDecode(token, SECRET_KEY, ALGORITHM, now).ok
                 \/ token.sub = None
                 \/ \A k \in DOMAIN fake_users_db :
                       ParseInt(token.sub[1]) # Some(fake_users_db[k].github_id))
                => r.status = 401 /\ r.principal = None
             /\ (\/ ~JwtDecode(token, QQ_JWT_SECRET_KEY, QQ_JWT_ALGORITHM, now).ok
                 \/ token.sub = None
                 \/ token.sub[1] \notin DOMAIN qq_user_db)
                => q.status = 401 /\ q.principal = None
    /\ 1 \notin DOMAIN fake_users_db
       => \A token \in IssuedToGithubUser :
             /\ get_current_user(token, fake_users_db, now).status = 401
             /\ get_current_active_user(
                    get_current_user(token, fake_users_db, now)).status = 401
             /\ LET r == refresh_access_token(token, fake_users_db, now)
                IN r.status = 401 /\ r.access_token = None
    /\ "o1" \notin DOMAIN qq_user_db
       => \A token \in IssuedToQQUser :
             /\ get_current_qq_user(token, qq_user_db, QQ_JWT_SECRET_KEY,
                                    now).status = 401
             /\ LET r == refresh_qq_token(token, qq_user_db, QQ_JWT_SECRET_KEY, now)
                IN r.status = 401 /\ r.access_token = None

\* the unexpired access token of the GitHub login was answered 401 after the
\* operator removed its user
C17_Witness ==
    /\ resp.op = "get_current_user" /\ resp.presented = Some(GithubAccess0)
    /\ ~IsExpired(GithubAccess0)
    /\ JwtDecode(GithubAccess0, SECRET_KEY, ALGORITHM, now).ok
    /\ 1 \notin DOMAIN fake_users_db
    /\ resp.status = 401 /\ resp.principal = None

(***************************************************************************)
(* Properties of the service family.                                       *)
(***************************************************************************)
\* C18: get_current_service answers 401 when the token fails verification
\* or has no subject, 403 when its subject is not the registered client id,
\* and otherwise 200 with the client id and the scopes of the token (none
\* when the token carries no scopes).
C18_ServiceResolver ==
    \A token \in TokenUniverse \cup TokenInputs :
        LET decoded == JwtDecode(token, SECRET_KEY, ALGORITHM, now)
            r == get_current_service(token, SERVICE_CLIENT_ID, now)
        IN /\ (~decoded.ok \/ token.sub = None)
              => r.status = 401 /\ r.principal = None
           /\ (decoded.ok /\ token.sub # None /\ token.sub # Some(SERVICE_CLIENT_ID))
              => r.status = 403 /\ r.principal = None
           /\ (decoded.ok /\ token.sub = Some(SERVICE_CLIENT_ID))
              => /\ r.status = 200
                 /\ r.principal =
                       Some([client_id |-> SERVICE_CLIENT_ID,
                             scopes |-> IF token.scopes = None THEN <<>>
                                        ELSE token.scopes[1]])

\* a token that verifies, for a subject other than the registered client,
\* was answered 403
C18_Witness ==
    /\ resp.op = "get_current_service" /\ resp.status = 403
    /\ resp.principal = None
    /\ resp.presented[1].key = SECRET_KEY /\ resp.presented[1].alg = ALGORITHM
    /\ resp.presented[1].sub # None
    /\ resp.presented[1].sub # Some(SERVICE_CLIENT_ID)

\* C19: the service token endpoint answers 200 with a token exactly when
\* the client id and the client secret both equal the configured ones, and
\* 401 without a token otherwise; the token has sub = client_id and, until it
\* expires, resolves through get_current_service to that client with the
\* default scopes; no response carries a refresh token.
C19_ServiceTokenEndpoint ==
    resp.op = "service_token" =>
        LET presented == resp.presented[1]
            match == /\ presented.client_id = SERVICE_CLIENT_ID
                     /\ presented.client_secret = SERVICE_CLIENT_SECRET
        IN /\ resp.refresh_token = None
           /\ match => resp.status = 200 /\ resp.access_token # None
           /\ ~match => resp.status = 401 /\ resp.access_token = None
           /\ resp.status = 200
              => /\ resp.access_token[1].sub = Some(presented.client_id)
                 /\ ~IsExpired(resp.access_token[1])
                    => get_current_service(resp.access_token[1], SERVICE_CLIENT_ID, now)
                       = [status |-> 200, detail |-> "",
                          principal |-> Some([client_id |-> presented.client_id,
                                              scopes |-> DefaultScopes])]

\* the configured pair was answered with a token that resolves
C19_Witness ==
    /\ resp.op = "service_token" /\ resp.status = 200
    /\ resp.presented[1].client_secret = SERVICE_CLIENT_SECRET
    /\ resp.access_token # None /\ resp.refresh_token = None
    /\ get_current_service(resp.access_token[1], SERVICE_CLIENT_ID, now).status = 200

\* the scopes of a resolved service principal, as a set
ScopeSet(principal) == {principal.scopes[i] : i \in 1..Len(principal.scopes)}

\* the tokens of SignedTokens that carry the service family's signature
ServiceSigned ==
    {token \in SignedTokens : token.key = SECRET_KEY /\ token.alg = ALGORITHM}

\* C20: a token that get_current_service resolves is answered by the
\* protected service endpoint with the payload exactly when the resolved
\* scopes contain read:service_data and with 403 otherwise; a token the
\* resolver refuses gets the resolver's answer; the resolver's status does
\* not depend on the scopes of the token.
C20_ScopeCheckIsLayered ==
    \A token \in ServiceSigned \cup TokenInputs :
        LET r == get_current_service(token, SERVICE_CLIENT_ID, now)
            e == read_service_data(r)
        IN /\ r.status = 200
              => /\ "read:service_data" \in ScopeSet(r.principal[1]) => e = r
                 /\ "read:service_data" \notin ScopeSet(r.principal[1])
                    => e.status = 403 /\ e.principal = None
           /\ r.status # 200 => e = r
           /\ token \in TokenInputs
              => \A scopes \in {None, Some(<<"write:service_log">>),
                                Some(DefaultScopes)} :
                    get_current_service([token EXCEPT !.scopes = scopes],
                                        SERVICE_CLIENT_ID, now).status = r.status

\* a token that resolves to the service principal without the scope was
\* answered 403 by the endpoint
C20_Witness ==
    /\ resp.op = "read_service_data" /\ resp.status = 403
    /\ LET r == get_current_service(resp.presented[1], SERVICE_CLIENT_ID, now)
       IN r.status = 200 /\ "read:service_data" \notin ScopeSet(r.principal[1])


(***************************************************************************)
(* C21: after a callback that succeeded, the access token and the refresh  *)
(* token it returned both carry as subject the id of the local user the    *)
(* callback upserted (the id of the fetched profile, the openid of the     *)
(* fetched identity), and the user resolver given the returned access      *)
(* token at once answers with the stored user of that id.                  *)
(***************************************************************************)
C21_TokensBearUpsertedUser ==
    /\ (resp.op = "callback_github" /\ resp.status = 200) =>
          LET id == resp.calls[2].json.id
              r == get_current_user(resp.access_token[1], fake_users_db, now)
          IN /\ get_user_by_github_id(fake_users_db, id) # None
             /\ resp.access_token[1].sub = Some(Str(id))
             /\ resp.refresh_token[1].sub = Some(Str(id))
             /\ r.status = 200
             /\ r.principal = get_user_by_github_id(fake_users_db, id)
             /\ r.principal[1].github_id = id
    /\ (resp.op = "callback_qq" /\ resp.status = 200) =>
          LET openid == get_qq_openid(resp.calls[2])[1]
              r == get_current_qq_user(resp.access_token[1], qq_user_db,
                                       QQ_JWT_SECRET_KEY, now)
          IN /\ get_qq_user_by_openid(qq_user_db, openid) # None
             /\ resp.access_token[1].sub = Some(openid)
             /\ resp.refresh_token[1].sub = Some(openid)
             /\ r.status = 200
             /\ r.principal = get_qq_user_by_openid(qq_user_db, openid)
             /\ r.principal[1].openid = openid

\* a GitHub callback has just logged in the second identity while the first
\* one is already stored
C21_Witness ==
    /\ resp.op = "callback_github" /\ resp.status = 200
    /\ resp.calls[2].json.id = 2
    /\ 1 \in DOMAIN fake_users_db
    /\ get_current_user(resp.access_token[1], fake_users_db, now).principal[1].github_id = 2

(***************************************************************************)
(* C22: every token a creator or an endpoint mints carries an expiry, and  *)
(* that expiry lies strictly after the instant of issue, so that the token *)
(* is not expired when it is issued; the access token of a user session    *)
(* pair expires before the pair's refresh token.                           *)
(***************************************************************************)
\* the lifetimes the callers ask for, and none
LifetimeInputs ==
    DeltaInputs \cup {Some(timedelta_minutes(SERVICE_ACCESS_TOKEN_EXPIRE_MINUTES)),
                      Some(timedelta_minutes(QQ_ACCESS_TOKEN_EXPIRE_MINUTES)),
                      Some(timedelta_minutes(REFRESH_TOKEN_EXPIRE_MINUTES))}

\* a token with an expiry after the current instant, accepted by its decoder
FreshlyValid(token, key, alg) ==
    /\ token.exp # None
    /\ token.exp[1] * TicksPerSecond > now
    /\ JwtDecode(token, key, alg, now).ok

OthersUntouched(sid) ==
    \A t \in Sessions \ {sid} :
        /\ session'[t] = session[t]
        /\ inflight'[t] = inflight[t]
        /\ \A key \in {"oauth_state", "qq_oauth_state"}, state \in StateValues :
              StateRejected(Get(session'[t], key), state)
                 = StateRejected(Get(session[t], key), state)

\* the step serves a request of the session: it answers it, or it suspends
\* or resumes its callback
StepOf(sid) ==
    \/ resp' # resp /\ resp'.sid = sid
    \/ inflight'[sid] # inflight[sid]

C23_SessionsIndependent ==
    [][\A sid \in Sessions :
        /\ StepOf(sid) => OthersUntouched(sid)
        /\ session'[sid] # session[sid] => StepOf(sid)
        \* a callback passes its state check on the stored state of its own
        \* session, and is refused on it
        /\ (inflight[sid] = None /\ inflight'[sid] # None) =>
              /\ StateMatches(session[sid], StateKey(inflight'[sid][1]),
                              inflight'[sid][1].state)
              /\ session'[sid] = Pop(session[sid], StateKey(inflight'[sid][1]))
        /\ (resp' # resp /\ resp'.sid = sid /\ IsCallback(resp') /\ resp'.status = 403) =>
              /\ ~StateMatches(session[sid], StateKey(resp'), resp'.state)
              /\ session' = session /\ inflight' = inflight
        \* a resumed callback touches no stored state
        /\ (inflight[sid] # None /\ inflight'[sid] # inflight[sid]) =>
              session' = session]_vars

\* the callback of one session has returned tokens while the callback of the
\* other session is suspended after its first answer
C23_Witness ==
    /\ inflight["s1"] # None /\ Len(inflight["s1"][1].calls) = 1
    /\ resp.sid = "s2" /\ IsCallback(resp) /\ resp.status = 200


(***************************************************************************)
(* C24: the upsert is atomic per identity.  With the callbacks of two      *)
(* sessions suspended and resumed at their awaits in every order, and the  *)
(* operator disabling users in between, no update is lost: the step in     *)
(* which a callback upserts leaves exactly one record of the identity,     *)
(* stored under its id, carrying the profile that callback fetched and the *)
(* disabled flag the record had when the step began, and leaves every      *)
(* other record as it was; a record that is disabled is disabled after     *)
(* every step; and a step of the operator changes nothing but the flag.    *)
(***************************************************************************)
C24_UpsertAtomic ==
    [][/\ \A k \in DOMAIN fake_users_db :
             k \in DOMAIN fake_users_db'
             /\ (fake_users_db[k].disabled => fake_users_db'[k].disabled)
       /\ (resp' # resp /\ resp'.op = "callback_github" /\ resp'.status = 200) =>
             LET user_data == resp'.calls[2].json
                 id == user_data.id
             IN /\ {k \in DOMAIN fake_users_db' : fake_users_db'[k].github_id = id} = {id}
                /\ fake_users_db'[id] =
                      [username |-> Get(user_data, "login"), github_id |-> id,
                       name |-> Get(user_data, "name"),
                       email |-> Get(user_data, "email"),
                       avatar_url |-> Get(user_data, "avatar_url"),
                       disabled |-> (id \in DOMAIN fake_users_db
                                     /\ fake_users_db[id].disabled)]
                /\ DOMAIN fake_users_db' = DOMAIN fake_users_db \cup {id}
                /\ \A k \in DOMAIN fake_users_db \ {id} :
                      fake_users_db'[k] = fake_users_db[k]
       /\ (resp' # resp /\ resp'.op = "admin_disable") =>
             /\ DOMAIN fake_users_db' = DOMAIN fake_users_db
             /\ \A k \in DOMAIN fake_users_db :
                   fake_users_db'[k] =
                      [fake_users_db[k] EXCEPT
                          !.disabled = @ \/ Str(k) = resp'.detail]
       /\ (\/ resp' = resp
           \/ resp'.op \notin {"admin_disable", "callback_github"}
           \/ (resp'.op = "callback_github" /\ resp'.status # 200))
          => fake_users_db' = fake_users_db]_vars

\* the operator has disabled a user while a callback is suspended before its
\* profile answer, the step in which it will upsert
C24_Witness ==
    /\ resp.op = "admin_disable"
    /\ \E sid \in Sessions : Awaits(sid, "callback_github", 1)
    /\ \E k \in DOMAIN fake_users_db : fake_users_db[k].disabled

(***************************************************************************)
(* C25: when the code exchange raises or its answer carries no usable      *)
(* access token, or the profile fetch raises or its answer lacks the       *)
(* identity field, the callback answers 500 (GitHub) or 503 (QQ) with the  *)
(* message fixed for the step that failed, whatever the body of the        *)
(* provider's answer, issues no token and leaves both user stores as they  *)
(* were.                                                                   *)
(***************************************************************************)
\* the fetch that failed, judged on the provider's answers, or "" if none did
FailedFetch(r) ==
    LET calls == r.calls
    IN IF r.op = "callback_github"
       THEN IF calls[1].raised THEN "github_token_failed"
            ELSE IF ~GithubTokenAnswerOK(calls[1]) THEN "github_response_invalid"
            ELSE IF calls[2].raised THEN "github_user_failed"
            ELSE IF "id" \notin DOMAIN calls[2].json THEN "github_user_unparsable"
            ELSE ""
       ELSE IF ~QQTokenAnswerOK(calls[1]) THEN "qq_token_failed"
            ELSE IF ~QQOpenidAnswerOK(calls[2]) THEN "qq_openid_failed"
            ELSE IF ~QQInfoAnswerOK(calls[3]) THEN "qq_user_info_failed"
            ELSE ""

C25_FetchFailureIsFixed5xx ==
    [][(resp' # resp /\ IsCallback(resp') /\ resp'.calls # <<>>
        /\ FailedFetch(resp') # "")
       => /\ resp'.status = IF resp'.op = "callback_github" THEN 500 ELSE 503
          /\ resp'.detail = FailedFetch(resp')
          /\ ~TokensIssued(resp')
          /\ UNCHANGED <<fake_users_db, qq_user_db>>]_vars

\* a GitHub callback has failed on a profile without an id while a user is
\* stored
C25_Witness ==
    /\ resp.op = "callback_github" /\ resp.status = 500
    /\ Len(resp.calls) = 2 /\ ~resp.calls[2].raised
    /\ "id" \notin DOMAIN resp.calls[2].json
    /\ resp.detail = "github_user_unparsable"
    /\ fake_users_db # EmptyDict

(***************************************************************************)
(* C26: the user resolver answers every token it does not accept with one  *)
(* and the same 401, whether the token is malformed, wrongly signed,       *)
(* expired, without a subject, with a subject that is no number, or of a   *)
(* user that is not stored, and accepts every other token; a callback      *)
(* refused by the state check is answered with one and the same 403,       *)
(* whether the session holds no stored state or another one.               *)
(***************************************************************************)
\* why the user resolver should refuse the token, judged on the token, the
\* store and the clock; "" when it should accept it
RefusalCause(token) ==
    IF token.form # "jwt" THEN "malformed"
    ELSE IF token.key # SECRET_KEY \/ token.alg # ALGORITHM THEN "signature"
    ELSE IF IsExpired(token) THEN "expired"
    ELSE IF token.sub = None THEN "no_subject"
    ELSE IF token.sub[1] \notin {"0", "1", "01", "2", "3"} THEN "subject_not_numeric"
    ELSE IF \A k \in DOMAIN fake_users_db :
               Str(fake_users_db[k].github_id) # token.sub[1]
                  /\ "0" \o Str(fake_users_db[k].github_id) # token.sub[1]
         THEN "unknown_user"
    ELSE ""

\* the one answer to a token that is not accepted
TheUnauthorized == [status |-> 401, detail |-> "credentials", principal |-> None]

C26_UniformRejections ==
    /\ \A token \in TokenInputs :
          LET r == get_current_user(token, fake_users_db, now)
          IN IF RefusalCause(token) = "" THEN r.status = 200 ELSE r = TheUnauthorized
    /\ (resp.op = "get_current_user" /\ resp.status # 200) =>
          resp = TokenResponse("get_current_user", resp.presented[1],
                               TheUnauthorized.status, TheUnauthorized.detail, None, None)
    /\ (IsCallback(resp) /\ resp.status = 403) =>
          resp = Response(resp.op, resp.sid, resp.state, 403, "invalid_state",
                          <<>>, <<>>, None, None)

\* the resolver has refused the access token of a stored user for nothing
\* but its expiry
C26_Witness ==
    /\ resp.op = "get_current_user" /\ resp.status = 401
    /\ RefusalCause(resp.presented[1]) = "expired"
    /\ resp.presented[1].sub # None
    /\ \E k \in DOMAIN fake_users_db : Str(fake_users_db[k].github_id) = resp.presented[1].sub[1]

(***************************************************************************)
(* C27: in every reachable state each store holds at most one record per   *)
(* provider user id, every record is stored under the key that equals its  *)
(* own id, and the lookup by an id returns that record and nothing for an  *)
(* id without one; after a callback that succeeded, the lookup by the      *)
(* fetched id returns the record carrying the fetched profile.             *)
(***************************************************************************)
C27_OneRecordPerIdentity ==
    /\ \A k \in DOMAIN fake_users_db : fake_users_db[k].github_id = k
    /\ \A k \in DOMAIN qq_user_db : qq_user_db[k].openid = k
    /\ \A id \in 0..3 :
          /\ Cardinality({k \in DOMAIN fake_users_db :
                             fake_users_db[k].github_id = id}) <= 1
          /\ get_user_by_github_id(fake_users_db, id) =
                IF id \in DOMAIN fake_users_db THEN Some(fake_users_db[id]) ELSE None
    /\ \A openid \in {"o1", "o2", "o3"} :
          /\ Cardinality({k \in DOMAIN qq_user_db : qq_user_db[k].openid = openid}) <= 1
          /\ get_qq_user_by_openid(qq_user_db, openid) =
                IF openid \in DOMAIN qq_user_db THEN Some(qq_user_db[openid]) ELSE None
    /\ (resp.op = "callback_github" /\ resp.status = 200) =>
          LET user == get_user_by_github_id(fake_users_db, resp.calls[2].json.id)
          IN /\ user # None
             /\ user[1].username = Get(resp.calls[2].json, "login")
             /\ user[1].name = Get(resp.calls[2].json, "name")
    /\ (resp.op = "callback_qq" /\ resp.status = 200) =>
          LET user == get_qq_user_by_openid(qq_user_db, get_qq_openid(resp.calls[2])[1])
          IN /\ user # None
             /\ user[1].nickname = get_qq_user_info(resp.calls[3])[1].nickname

\* a callback has stored a second GitHub user next to the first
C27_Witness ==
    /\ DOMAIN fake_users_db = {1, 2}
    /\ resp.op = "callback_github" /\ resp.status = 200
    /\ get_user_by_github_id(fake_users_db, 2) = Some(fake_users_db[2])


(***************************************************************************)
(* C28: the upsert fails only on malformed input: given a profile without  *)
(* a usable id it raises ValueError and leaves the store as it was; and a  *)
(* callback whose fetched profile carries no usable id stores no record    *)
(* for it and ends in a response the handler raised itself, not in an      *)
(* exception that escaped the handler.                                     *)
(***************************************************************************)
\* the profile has no id, or a falsy one
NoUsableId(user_data) == "id" \notin DOMAIN user_data \/ user_data.id = 0

\* the response the server makes of an exception that escaped the handler
Unhandled(r) == r.detail \in {"ValueError", "ValidationError"}

C28_NoUsableIdHandled ==
    /\ \A user_response \in GithubUserResponses :
          NoUsableId(user_response.json) =>
             LET up == add_or_update_user(fake_users_db, user_response.json)
             IN up.raised = "ValueError" /\ up.db = fake_users_db /\ up.user = None
    /\ 0 \notin DOMAIN fake_users_db
    /\ (resp.op = "callback_github" /\ Len(resp.calls) = 2 /\ ~resp.calls[2].raised
        /\ NoUsableId(resp.calls[2].json))
       => resp.status = 500 /\ ~TokensIssued(resp) /\ ~Unhandled(resp)

(***************************************************************************)
(* C29: the result of the QQ adapter does not depend on the format of the  *)
(* answer.  The same token answer yields the same result as JSON and as a  *)
(* key=value line, and is accepted exactly when it carries an access token *)
(* and no error; the same openid answer yields the same result inside the  *)
(* callback( ... ); envelope and as bare JSON, and is accepted exactly     *)
(* when it carries an openid; a failed request, an unknown content type    *)
(* and a body that is neither form yield no value; and a callback whose    *)
(* token step or openid step yields no value is refused with 503 at that   *)
(* step.                                                                   *)
(***************************************************************************)
\* what a token answer can say, as its key and value pairs
QQTokenContents ==
    {<< <<"access_token", "qa_1">>, <<"expires_in", "7776000">>,
        <<"refresh_token", "qr_1">> >>,
     << <<"access_token", "qa_2">> >>,
     << <<"access_token", "">>, <<"expires_in", "7776000">> >>,
     << <<"refresh_token", "qr_1">>, <<"expires_in", "7776000">> >>,
     << <<"error", "100019">>, <<"error_description", "code is wrong">> >>,
     <<>>}

\* the answer saying it as JSON, and as a key=value line of a text type
AsJsonAnswer(pairs) ==
    [raised |-> FALSE, content_type |-> "application/json",
     json |-> TextDict(pairs), text |-> <<>>]
AsTextAnswer(pairs, content_type) ==
    [raised |-> FALSE, content_type |-> content_type, json |-> EmptyDict, text |-> pairs]

\* what an openid answer can say
QQOpenidContents ==
    {[client_id |-> "app", openid |-> "o1"], [client_id |-> "app", openid |-> ""],
     [error |-> "100016", error_description |-> "token is wrong"], EmptyDict}

StoredAsPending(sid, key, other_key) ==
    LET replaced == Get(session[sid], key)
        expected_state == Get(session'[sid], key)
    IN /\ expected_state = Some(resp'.state)
       /\ replaced # None => replaced[1] # resp'.state
       /\ \A state \in StateValues :
             StateRejected(expected_state, state) <=> state # resp'.state
       /\ Get(session'[sid], other_key) = Get(session[sid], other_key)

C30_LatestStateOnly ==
    [][\A sid \in Sessions :
        /\ login_via_github(sid) => StoredAsPending(sid, "oauth_state", "qq_oauth_state")
        /\ login_via_qq(sid) => StoredAsPending(sid, "qq_oauth_state", "oauth_state")
        /\ \A state \in StateValues :
              /\ (resp.op = "login_github" /\ resp.sid = sid /\ code_to_access(sid, state))
                 => (resp'.status = 403 <=> state # resp.state)
              /\ (resp.op = "login_qq" /\ resp.sid = sid /\ auth_qq_callback(sid, state))
                 => (resp'.status = 403 <=> state # resp.state)]_vars

\* a callback presenting the first state issued has been refused in a session
\* whose pending state is the second one, no other state pending anywhere
C30_Witness ==
    /\ resp.op = "callback_github" /\ resp.status = 403 /\ resp.state = <<1>>
    /\ issued = 2
    /\ session[resp.sid] = Put(EmptyDict, "oauth_state", <<2>>)
    /\ \A sid \in Sessions \ {resp.sid} : session[sid] = EmptyDict

(***************************************************************************)
(* C31: within one session the two providers keep their pending states in  *)
(* separate entries.  A login or a callback of one provider leaves the     *)
(* entry of the other provider as it was, and a callback passes its state  *)
(* check only on the entry of its own provider: a state that the login of  *)
(* the other provider issued is refused unless the own entry equals it.    *)
(***************************************************************************)
\* the entry of the provider in the session is as it was
EntryUnchanged(sid, key) == Get(session'[sid], key) = Get(session[sid], key)

\* the entry of the provider the request belongs to, and of the other one
OwnKey(r) == StateKey(r)
OtherKey(r) == IF StateKey(r) = "oauth_state" THEN "qq_oauth_state" ELSE "oauth_state"

C31_ProvidersSeparate ==
    [][/\ resp' = resp => session' = session
       /\ (resp' # resp /\ resp'.sid \in Sessions) =>
             LET r == resp'
                 sid == r.sid
             IN /\ EntryUnchanged(sid, OtherKey(r))
                /\ IsCallback(r) =>
                      /\ r.status # 403 => StateMatches(session[sid], OwnKey(r), r.state)
                      /\ (StateMatches(session[sid], OtherKey(r), r.state)
                          /\ ~StateMatches(session[sid], OwnKey(r), r.state))
                            => r.status = 403 /\ session' = session]_vars

\* the QQ callback has refused the state pending for GitHub in a session
\* that holds a state for QQ as well
C31_Witness ==
    /\ resp.op = "callback_qq" /\ resp.status = 403
    /\ StateMatches(session[resp.sid], "oauth_state", resp.state)
    /\ "qq_oauth_state" \in DOMAIN session[resp.sid]
(***************************************************************************)
(* C32  Token verification, refresh, the service token endpoint and the    *)
(* protected endpoints are read-only: whatever they answer, both user      *)
(* stores and every session's stored state stay as they were.  A session   *)
(* entry is written only by a login request, which stores the state it     *)
(* issued under its own key; an entry is removed, and a user record is     *)
(* written, only by a callback whose state matched the stored one.         *)
(***************************************************************************)
TokenEndpointOps ==
    {"get_current_user", "get_current_active_user", "get_current_service",
     "read_service_data", "get_current_qq_user", "refresh_github", "refresh_qq",
     "service_token"}
IsLogin(r) == r.op \in {"login_github", "login_qq"}
PassedStateCheck(r) ==
    /\ IsCallback(r) /\ r.sid \in Sessions /\ r.status # 403
    /\ StateMatches(session[r.sid], StateKey(r), r.state)
StoresUnchanged == fake_users_db' = fake_users_db /\ qq_user_db' = qq_user_db

C32_ReadOnlyEndpoints ==
    [][/\ (resp' # resp /\ resp'.op \in TokenEndpointOps) =>
             session' = session /\ StoresUnchanged
       /\ \A sid \in Sessions :
             session'[sid] # session[sid] =>
                /\ resp' # resp /\ resp'.sid = sid
                /\ \/ /\ IsLogin(resp')
                      /\ session'[sid] = Put(session[sid], StateKey(resp'), resp'.state)
                   \/ /\ PassedStateCheck(resp')
                      /\ session'[sid] = Pop(session[sid], StateKey(resp'))
       /\ ~StoresUnchanged => resp' # resp /\ PassedStateCheck(resp')]_vars

\* a refresh answered with a new access token while a session holds a
\* pending QQ state and the user store holds the caller
C32_Witness ==
    /\ resp.op = "refresh_github" /\ resp.status = 200
    /\ fake_users_db # EmptyDict
    /\ \E sid \in Sessions : "qq_oauth_state" \in DOMAIN session[sid]

(***************************************************************************)
(* C33  The GitHub callback does not check disabled.  A callback that      *)
(* passed the state check and got a token and a usable profile from GitHub *)
(* answers 200 with an access/refresh token pair also when the stored      *)
(* user is disabled, and leaves the user disabled.  While the user stays   *)
(* disabled, each of the two tokens is refused wherever it is presented:   *)
(* the refresh endpoint answers 401, and the endpoints that require an     *)
(* active user answer 400 as long as the presented token has not expired   *)
(* and 401 once it has.                                                    *)
(***************************************************************************)
\* GitHub answered the callback's two requests and the profile has an id
\* and a login the upsert accepts
ExchangeSucceeded(r) ==
    /\ r.op = "callback_github" /\ Len(r.calls) = 2
    /\ ~r.calls[1].raised /\ ~r.calls[2].raised
    /\ "id" \in DOMAIN r.calls[2].json /\ r.calls[2].json.id # 0
    /\ "login" \in DOMAIN r.calls[2].json
\* the last response is a completed login of a user who is disabled
LoggedInDisabled ==
    /\ resp.op = "callback_github" /\ resp.status = 200
    /\ fake_users_db[resp.calls[2].json.id].disabled
PairOf(r) == {r.access_token[1], r.refresh_token[1]}
ActiveUserStatus(token) ==
    get_current_active_user(get_current_user(token, fake_users_db, now)).status
RefreshStatus(token) == refresh_access_token(token, fake_users_db, now).status

C33_DisabledLoginIsUseless ==
    [][/\ (/\ resp' # resp /\ ExchangeSucceeded(resp')
           /\ resp'.calls[2].json.id \in DOMAIN fake_users_db
           /\ fake_users_db[resp'.calls[2].json.id].disabled)
          => /\ resp'.status = 200
             /\ resp'.access_token # None /\ resp'.refresh_token # None
             /\ LoggedInDisabled'
       /\ LoggedInDisabled' =>
             \A token \in PairOf(resp') :
                /\ RefreshStatus(token)' = 401
                /\ ActiveUserStatus(token)' = IF IsExpired(token)' THEN 401 ELSE 400
       /\ (/\ LoggedInDisabled /\ resp' # resp
           /\ resp'.presented # None /\ resp'.presented[1] \in PairOf(resp))
          => /\ resp'.op = "refresh_github" => resp'.status = 401
             /\ resp'.op = "get_current_active_user" =>
                   resp'.status = IF IsExpired(resp'.presented[1]) THEN 401 ELSE 400]_vars

\* a disabled user has logged in again and holds the pair the callback
\* issued; the access token has expired since, the refresh token has not
C33_Witness ==
    /\ LoggedInDisabled
    /\ resp.access_token # None /\ resp.refresh_token # None
    /\ IsExpired(resp.access_token[1]) /\ ~IsExpired(resp.refresh_token[1])

\* C33 as stated: the endpoints that require an active user answer 400 to
\* either token of the pair for as long as the user stays disabled
C33_AlwaysBadRequest ==
    LoggedInDisabled =>
        \A token \in PairOf(resp) :
            /\ RefreshStatus(token) = 401
            /\ ActiveUserStatus(token) = 400

====
